---- MODULE Spec2Model ----
(***************************************************************************)
(* A model of the Rust binding's two evaluators (lib/binding_rust/lib.rs): *)
(*   - PropertySheet::new and TreePropertyCursor (the property state       *)
(*     machine driven by a tree walk);                                     *)
(*   - QueryCursor::matches / captures (predicate filtering of raw         *)
(*     matches).                                                           *)
(* The parsing engine, the tree and the structural matcher are the         *)
(* environment: a tree is an immutable value the cursor walks, a match     *)
(* source is a finite sequence of raw matches.                             *)
(***************************************************************************)
EXTENDS Integers, Sequences, FiniteSets, TLC

(***************************************************************************)
(* Option<T>: None is the empty tuple, Some(x) the one-element tuple.      *)
(***************************************************************************)
None == <<>>

Some(x) == <<x>>

IsSome(o) == o # <<>>

Unwrap(o) == o[1]

\* `x as u16`
U16 == 65536

AsU16(x) == x % U16

(***************************************************************************)
(* Bytes and text.  Source text is a sequence of bytes; the bytes used are *)
(* the ASCII letters a, b and 0xFF, which no UTF-8 encoding contains.      *)
(***************************************************************************)
Byte == [a |-> 97, b |-> 98, paren |-> 40, ff |-> 255]

\* str::from_utf8(text).is_ok(), on the bytes above: ASCII is valid, a byte
\* of 0xF8..0xFF never is.
Utf8Valid(text) == \A i \in 1..Len(text) : text[i] < 128

\* Whether `pat` occurs in `text` as a contiguous run (an unanchored search).
Occurs(pat, text) ==
    \E i \in 0..(Len(text) - Len(pat)) :
        \A j \in 1..Len(pat) : text[i + j] = pat[j]

\* str::as_bytes, for the strings used as literals and patterns.
AsBytes(s) ==
    CASE s = "" -> <<>>
      [] s = "a" -> <<Byte.a>>
      [] s = "b" -> <<Byte.b>>
      [] s = "ab" -> <<Byte.a, Byte.b>>
      [] s = "(" -> <<Byte.paren>>

\* Regex::new(pattern): the patterns used are literals; a pattern holding an
\* unbalanced "(" does not compile.
RegexNew(pattern) ==
    IF \E i \in 1..Len(AsBytes(pattern)) : AsBytes(pattern)[i] = Byte.paren
    THEN [ok |-> FALSE, regex |-> <<>>,
          error |-> << "regex parse error", pattern >>]
    ELSE [ok |-> TRUE, regex |-> [literal |-> AsBytes(pattern)],
          error |-> <<>>]

\* Regex::is_match(text): search semantics, not a full match.
IsMatch(regex, text) == Occurs(regex.literal, text)

(***************************************************************************)
(* Language metadata: node kinds (id = position - 1) and fields (id =      *)
(* position, 0 is "no field").  The name "a" is used by a named and by an  *)
(* anonymous kind.                                                         *)
(***************************************************************************)
NodeKinds ==
    << [name |-> "a", named |-> TRUE],
       [name |-> "a", named |-> FALSE],
       [name |-> "b", named |-> TRUE] >>

FieldNames == << "f", "g" >>

node_kind_count == Len(NodeKinds)

node_kind_for_id(id) == NodeKinds[id + 1].name

node_kind_is_named(id) == NodeKinds[id + 1].named

field_id_for_name(name) ==
    IF \E i \in 1..Len(FieldNames) : FieldNames[i] = name
    THEN Some(CHOOSE i \in 1..Len(FieldNames) : FieldNames[i] = name)
    ELSE None

(***************************************************************************)
(* PropertySheet::new.  A HashMap is a function on its key set.            *)
(***************************************************************************)
PropertyTransition(state_id, child_index, text_regex_index, node_kind_id) ==
    [state_id |-> state_id, child_index |-> child_index,
     text_regex_index |-> text_regex_index, node_kind_id |-> node_kind_id]

\* map.entry(key).or_insert(Vec::new())
EntryOrInsert(map, key) ==
    IF key \in DOMAIN map THEN map
    ELSE [k \in (DOMAIN map) \cup {key} |-> IF k = key THEN <<>> ELSE map[k]]

\* map.entry(key).or_insert(Vec::new()).push(value)
EntryPush(map, key, value) ==
    [k \in (DOMAIN map) \cup {key} |->
        IF k = key
        THEN (IF key \in DOMAIN map THEN Append(map[k], value) ELSE <<value>>)
        ELSE map[k]]

\* for (_, entries) in map.iter_mut() { entries.push(value) }
PushAll(map, value) == [k \in DOMAIN map |-> Append(map[k], value)]

\* A position that finds nothing: every pattern is taken for a new one.
PositionMissed(patterns, pattern) == None

\* text_regex_patterns.iter().position(|r| *r == pattern)
Position(patterns, pattern) ==
    IF \E i \in 1..Len(patterns) : patterns[i] = pattern
    THEN Some((CHOOSE i \in 1..Len(patterns) :
                  /\ patterns[i] = pattern
                  /\ \A j \in 1..(i - 1) : patterns[j] # pattern) - 1)
    ELSE None

\* No first loop: a field bucket exists from the first push to it on.
InstantiateNoFields(transitions, field_transitions) == field_transitions

\* The first loop over a state's transitions: a bucket for every field named.
RECURSIVE InstantiateFields(_, _)
InstantiateFields(transitions, field_transitions) ==
    IF transitions = <<>> THEN field_transitions
    ELSE LET transition == Head(transitions)
             field_id == IF IsSome(transition.field)
                         THEN field_id_for_name(Unwrap(transition.field))
                         ELSE None
         IN  InstantiateFields(Tail(transitions),
                IF IsSome(field_id)
                THEN EntryOrInsert(field_transitions, Unwrap(field_id))
                ELSE field_transitions)

\* `index as u16`, of a pattern found in the list.
FoundIndex(index) == AsU16(index)

\* `text_regexes.len() as u16 - 1`, after the push; -1 is the result of
\* `0u16 - 1`, a subtraction that overflows.
PushedIndex(len) == AsU16(len) - 1

\* The regex of one transition: the index of its pattern, compiled on first use.
\* acc holds text_regexes, text_regex_patterns and err (None, or the error).
ResolveRegex(acc, transition) ==
    IF ~IsSome(transition.text) THEN [acc |-> acc, index |-> None]
    ELSE LET regex_pattern == Unwrap(transition.text)
             found == Position(acc.text_regex_patterns, regex_pattern)
         IN  IF IsSome(found)
             THEN [acc |-> acc, index |-> Some(FoundIndex(Unwrap(found)))]
             ELSE LET compiled == RegexNew(regex_pattern)
                      patterns == Append(acc.text_regex_patterns, regex_pattern)
                  IN  IF ~compiled.ok
                      THEN [acc |-> [acc EXCEPT
                                        !.text_regex_patterns = patterns,
                                        !.err = Some(
                                            [kind |-> "InvalidRegex",
                                             error |-> compiled.error])],
                            index |-> None]
                      ELSE [acc |-> [acc EXCEPT
                                        !.text_regex_patterns = patterns,
                                        !.text_regexes =
                                            Append(@, compiled.regex)],
                            index |->
                              Some(PushedIndex(Len(acc.text_regexes) + 1))]

\* The loop over kind ids, were a transition that names a field to be
\* pushed to the kind bucket as well.
RECURSIVE RegisterKindsInBoth(_, _, _, _, _)
RegisterKindsInBoth(maps, transition, tr, field_id, kind_id) ==
    IF kind_id >= AsU16(node_kind_count) THEN maps
    ELSE IF \/ Unwrap(transition.kind) # node_kind_for_id(kind_id)
            \/ transition.named # Some(node_kind_is_named(kind_id))
         THEN RegisterKindsInBoth(maps, transition, tr, field_id, kind_id + 1)
         ELSE LET filtered == [tr EXCEPT !.node_kind_id = Some(kind_id)]
                  next ==
                    IF IsSome(field_id)
                    THEN [maps EXCEPT
                            !.field_transitions =
                                EntryPush(@, Unwrap(field_id), filtered),
                            !.kind_transitions = EntryPush(@, kind_id, tr)]
                    ELSE [maps EXCEPT
                            !.field_transitions = PushAll(@, filtered),
                            !.kind_transitions = EntryPush(@, kind_id, tr)]
              IN  RegisterKindsInBoth(next, transition, tr, field_id,
                                      kind_id + 1)

\* The loop over kind ids, were a transition whose `named` is omitted to
\* stand for the kinds of its name, named or not.
RECURSIVE RegisterKindsNamedOptional(_, _, _, _, _)
RegisterKindsNamedOptional(maps, transition, tr, field_id, kind_id) ==
    IF kind_id >= AsU16(node_kind_count) THEN maps
    ELSE IF \/ Unwrap(transition.kind) # node_kind_for_id(kind_id)
            \/ (IsSome(transition.named) /\
                  transition.named # Some(node_kind_is_named(kind_id)))
         THEN RegisterKindsNamedOptional(maps, transition, tr, field_id, kind_id + 1)
         ELSE LET filtered == [tr EXCEPT !.node_kind_id = Some(kind_id)]
                  next ==
                    IF IsSome(field_id)
                    THEN [maps EXCEPT !.field_transitions =
                            EntryPush(@, Unwrap(field_id), filtered)]
                    ELSE [maps EXCEPT
                            !.field_transitions = PushAll(@, filtered),
                            !.kind_transitions = EntryPush(@, kind_id, tr)]
              IN  RegisterKindsNamedOptional(next, transition, tr, field_id, kind_id + 1)

\* The loop over kind ids of a transition that names a kind.
RECURSIVE RegisterKinds(_, _, _, _, _)
RegisterKinds(maps, transition, tr, field_id, kind_id) ==
    IF kind_id >= AsU16(node_kind_count) THEN maps
    ELSE IF \/ Unwrap(transition.kind) # node_kind_for_id(kind_id)
            \/ transition.named # Some(node_kind_is_named(kind_id))
         THEN RegisterKinds(maps, transition, tr, field_id, kind_id + 1)
         ELSE LET filtered == [tr EXCEPT !.node_kind_id = Some(kind_id)]
                  next ==
                    IF IsSome(field_id)
                    THEN [maps EXCEPT !.field_transitions =
                            EntryPush(@, Unwrap(field_id), filtered)]
                    ELSE [maps EXCEPT
                            !.field_transitions = PushAll(@, filtered),
                            !.kind_transitions = EntryPush(@, kind_id, tr)]
              IN  RegisterKinds(next, transition, tr, field_id, kind_id + 1)

\* The body of the second loop, after the regex is resolved.
RegisterTransition(maps, transition, text_regex_index) ==
    LET state_id == AsU16(transition.state_id)
        child_index == IF IsSome(transition.index)
                       THEN Some(AsU16(Unwrap(transition.index)))
                       ELSE None
        field_id == IF IsSome(transition.field)
                    THEN field_id_for_name(Unwrap(transition.field))
                    ELSE None
        tr == PropertyTransition(state_id, child_index, text_regex_index, None)
    IN  IF IsSome(transition.kind)
        THEN RegisterKinds(maps, transition, tr, field_id, 0)
        ELSE IF IsSome(field_id)
        THEN [maps EXCEPT !.field_transitions =
                EntryPush(@, Unwrap(field_id), tr)]
        ELSE maps

\* The second loop over a state's transitions; stops at the first regex error.
RECURSIVE CompileTransitions(_, _, _)
CompileTransitions(transitions, acc, maps) ==
    IF transitions = <<>> THEN [acc |-> acc, maps |-> maps]
    ELSE LET transition == Head(transitions)
             resolved == ResolveRegex(acc, transition)
         IN  IF IsSome(resolved.acc.err)
             THEN [acc |-> resolved.acc, maps |-> maps]
             ELSE CompileTransitions(Tail(transitions), resolved.acc,
                     RegisterTransition(maps, transition, resolved.index))

\* The loop over input.states, were it to stop at a regex error and keep
\* the states compiled so far.
RECURSIVE CompileStatesPartial(_, _, _)
CompileStatesPartial(json_states, acc, states) ==
    IF json_states = <<>> THEN [acc |-> acc, states |-> states]
    ELSE LET state == Head(json_states)
             fields == InstantiateFields(state.transitions, <<>>)
             done == CompileTransitions(state.transitions, acc,
                        [kind_transitions |-> <<>>,
                         field_transitions |-> fields])
         IN  IF IsSome(done.acc.err)
             THEN [acc |-> [done.acc EXCEPT !.err = None], states |-> states]
             ELSE CompileStatesPartial(Tail(json_states), done.acc,
                     Append(states,
                        [field_transitions |-> done.maps.field_transitions,
                         kind_transitions |-> done.maps.kind_transitions,
                         default_next_state_id |-> state.default_next_state_id,
                         property_set_id |-> state.property_set_id]))

\* The loop over input.states.
RECURSIVE CompileStates(_, _, _)
CompileStates(json_states, acc, states) ==
    IF json_states = <<>> THEN [acc |-> acc, states |-> states]
    ELSE LET state == Head(json_states)
             fields == InstantiateFields(state.transitions, <<>>)
             done == CompileTransitions(state.transitions, acc,
                        [kind_transitions |-> <<>>,
                         field_transitions |-> fields])
         IN  IF IsSome(done.acc.err)
             THEN [acc |-> done.acc, states |-> states]
             ELSE CompileStates(Tail(json_states), done.acc,
                     Append(states,
                        [field_transitions |-> done.maps.field_transitions,
                         kind_transitions |-> done.maps.kind_transitions,
                         default_next_state_id |-> state.default_next_state_id,
                         property_set_id |-> state.property_set_id]))

NoSheet == [states |-> <<>>, property_sets |-> <<>>, text_regexes |-> <<>>]

\* PropertySheet::new(language, json): Ok(sheet) or Err(error); an Err
\* carries no sheet.
PropertySheetNew(json) ==
    IF ~json.parses
    THEN [ok |-> FALSE, sheet |-> NoSheet,
          err |-> Some([kind |-> "InvalidJSON", error |-> "serde_json"])]
    ELSE LET done == CompileStates(json.states,
                        [text_regexes |-> <<>>, text_regex_patterns |-> <<>>,
                         err |-> None], <<>>)
         IN  IF IsSome(done.acc.err)
             THEN [ok |-> FALSE, err |-> done.acc.err, sheet |-> NoSheet]
             ELSE [ok |-> TRUE, err |-> None,
                   sheet |-> [states |-> done.states,
                              property_sets |-> json.property_sets,
                              text_regexes |-> done.acc.text_regexes]]

(***************************************************************************)
(* The tree (external): its nodes in pre-order, each with its parent (0    *)
(* for the root), kind id, field id in its parent (0: none) and source     *)
(* text.  TsGoto* are the tree cursor's moves: the node reached, or 0.     *)
(***************************************************************************)
TsGotoFirstChild(t, n) ==
    IF n < Len(t) /\ t[n + 1].parent = n THEN n + 1 ELSE 0

TsGotoNextSibling(t, n) ==
    LET later == {m \in (n + 1)..Len(t) : t[m].parent = t[n].parent}
    IN  IF t[n].parent # 0 /\ later # {}
        THEN CHOOSE m \in later : \A k \in later : m <= k
        ELSE 0

TsGotoParent(t, n) == t[n].parent

\* The number of ancestors of n: the root has depth 0.
RECURSIVE Depth(_, _)
Depth(t, n) == IF t[n].parent = 0 THEN 0 ELSE 1 + Depth(t, t[n].parent)

\* The index of n among its siblings.
SiblingIndex(t, n) ==
    Cardinality({m \in 1..(n - 1) : t[m].parent = t[n].parent /\ t[n].parent # 0})

\* TreeCursor::field_id
FieldId(node) == IF node.field = 0 THEN None ELSE Some(node.field)

(***************************************************************************)
(* TreePropertyCursor::next_state.  A state id s names sheet.states[s+1];  *)
(* indexing a Vec out of range panics.                                     *)
(***************************************************************************)
InRange(seq, id) == id >= 0 /\ id < Len(seq)

\* The lookup, were a node that has a field id never to reach the kind
\* buckets.
LookupFieldOnly(state, node) ==
    LET node_field_id == FieldId(node)
    IN  IF IsSome(node_field_id)
        THEN IF Unwrap(node_field_id) \in DOMAIN state.field_transitions
             THEN Some(state.field_transitions[Unwrap(node_field_id)])
             ELSE None
        ELSE IF node.kind \in DOMAIN state.kind_transitions
        THEN Some(state.kind_transitions[node.kind])
        ELSE None

\* node_field_id.and_then(|f| state.field_transitions.get(&f))
\*              .or_else(|| state.kind_transitions.get(&node_kind_id))
Lookup(state, node) ==
    LET node_field_id == FieldId(node)
    IN  IF IsSome(node_field_id)
           /\ Unwrap(node_field_id) \in DOMAIN state.field_transitions
        THEN Some(state.field_transitions[Unwrap(node_field_id)])
        ELSE IF node.kind \in DOMAIN state.kind_transitions
        THEN Some(state.kind_transitions[node.kind])
        ELSE None

\* The regex condition of a transition: a `continue` only when the text
\* decodes and the regex does not match it.
RegexPasses(sh, transition, node) ==
    IF IsSome(transition.text_regex_index)
    THEN (Utf8Valid(node.text) =>
            IsMatch(sh.text_regexes[Unwrap(transition.text_regex_index) + 1],
                    node.text))
    ELSE TRUE

\* The three `continue` conditions of the transition loop, negated.
Passes(sh, transition, node, node_child_index) ==
    /\ ~(IsSome(transition.node_kind_id)
          /\ Unwrap(transition.node_kind_id) # node.kind)
    /\ RegexPasses(sh, transition, node)
    /\ (IsSome(transition.child_index) =>
            Unwrap(transition.child_index) = AsU16(node_child_index))

\* The first transition of the list that passes, or None.
RECURSIVE FirstPassing(_, _, _, _)
FirstPassing(sh, transitions, node, node_child_index) ==
    IF transitions = <<>> THEN None
    ELSE IF Passes(sh, Head(transitions), node, node_child_index)
    THEN Some(Head(transitions))
    ELSE FirstPassing(sh, Tail(transitions), node, node_child_index)

\* One iteration of `for state in [current_state, default_state]`.
SearchState(sh, state, node, node_child_index) ==
    LET transitions == Lookup(state, node)
    IN  IF IsSome(transitions)
        THEN FirstPassing(sh, Unwrap(transitions), node, node_child_index)
        ELSE None

\* next_state, were the default state searched before the current one.
NextStateDefaultFirst(sh, stack, node, node_child_index) ==
    LET top == stack[Len(stack)]
    IN  IF ~InRange(sh.states, top) \/ sh.states = <<>>
        THEN [panic |-> TRUE, state_id |-> 0, via |-> None, of |-> "panic"]
        ELSE LET current_state == sh.states[top + 1]
                 default_state == sh.states[1]
                 first == SearchState(sh, current_state, node, node_child_index)
                 second == SearchState(sh, default_state, node, node_child_index)
             IN  IF top # 0 /\ IsSome(second)
                 THEN [panic |-> FALSE, state_id |-> Unwrap(second).state_id,
                       via |-> second, of |-> "default"]
                 ELSE IF IsSome(first)
                 THEN [panic |-> FALSE, state_id |-> Unwrap(first).state_id,
                       via |-> first, of |-> "current"]
                 ELSE [panic |-> FALSE,
                       state_id |-> current_state.default_next_state_id,
                       via |-> None, of |-> "fallback"]

\* next_state, were it to end on the default_next_state_id of state 0.
NextStateFallsToDefaultState(sh, stack, node, node_child_index) ==
    LET top == stack[Len(stack)]
    IN  IF ~InRange(sh.states, top) \/ sh.states = <<>>
        THEN [panic |-> TRUE, state_id |-> 0, via |-> None, of |-> "panic"]
        ELSE LET current_state == sh.states[top + 1]
                 default_state == sh.states[1]
                 first == SearchState(sh, current_state, node, node_child_index)
                 second == SearchState(sh, default_state, node, node_child_index)
             IN  IF IsSome(first)
                 THEN [panic |-> FALSE, state_id |-> Unwrap(first).state_id,
                       via |-> first, of |-> "current"]
                 ELSE IF top # 0 /\ IsSome(second)
                 THEN [panic |-> FALSE, state_id |-> Unwrap(second).state_id,
                       via |-> second, of |-> "default"]
                 ELSE [panic |-> FALSE,
                       state_id |-> default_state.default_next_state_id,
                       via |-> None, of |-> "fallback"]

\* next_state(node_child_index) with `stack` as the state stack and `node`
\* under the tree cursor.  panic: current_state() or default_state() fails.
\* via: the transition that returned, if one did.
next_state(sh, stack, node, node_child_index) ==
    LET top == stack[Len(stack)]
    IN  IF ~InRange(sh.states, top) \/ sh.states = <<>>
        THEN [panic |-> TRUE, state_id |-> 0, via |-> None, of |-> "panic"]
        ELSE LET current_state == sh.states[top + 1]
                 default_state == sh.states[1]
                 first == SearchState(sh, current_state, node, node_child_index)
                 second == SearchState(sh, default_state, node, node_child_index)
             IN  IF IsSome(first)
                 THEN [panic |-> FALSE, state_id |-> Unwrap(first).state_id,
                       via |-> first, of |-> "current"]
                 ELSE IF top # 0 /\ IsSome(second)
                 THEN [panic |-> FALSE, state_id |-> Unwrap(second).state_id,
                       via |-> second, of |-> "default"]
                 ELSE [panic |-> FALSE,
                       state_id |-> current_state.default_next_state_id,
                       via |-> None, of |-> "fallback"]

\* A pop that was forgotten.
PopNothing(seq) == seq

\* Vec::pop
Pop(seq) == SubSeq(seq, 1, Len(seq) - 1)

\* A push that was forgotten.
PushDropped(seq, x) == seq

\* Vec::push
Push(seq, x) == Append(seq, x)

(***************************************************************************)
(* State.                                                                  *)
(*   pc                 where the program is: "start", "compiled",         *)
(*                      "rejected" (PropertySheet::new returned Err),      *)
(*                      "walking" (a cursor exists), "panicked"            *)
(*   input              the declarative sheet given to PropertySheet::new  *)
(*   sheet              the compiled PropertySheet                         *)
(*   tree               the tree walked                                    *)
(*   cursor             TreePropertyCursor.cursor: the node it is at       *)
(*   state_stack        TreePropertyCursor.state_stack                     *)
(*   child_index_stack  TreePropertyCursor.child_index_stack               *)
(*   last               the last call and what it returned                 *)
(*   saved              history: the two stacks as they were before each   *)
(*                      descent that has not been undone by goto_parent    *)
(*   qpc                where the query side is: "start", "compiled",      *)
(*                      "rejected", "matches" / "captures" (an iterator    *)
(*                      exists), "panicked"; "new_panicked" (Query::new    *)
(*                      panicked)                                          *)
(*   qinput             what the structural compilation hands Query::new   *)
(*   query              the compiled Query                                 *)
(*   raw                the raw matches the match source will produce      *)
(*   texts              text_callback: node -> bytes                       *)
(*   pulled             the number of raw items taken from the source      *)
(*   yielded            the items the iterator has returned so far         *)
(*   ended              the iterator has returned None                     *)
(*   qerr               the error Query::new returned, if any              *)
(*   runs               what each finished iteration of matches returned   *)
(*   other              a second TreePropertyCursor made of the same sheet  *)
(*                      and tree: its cursor, its two stacks, its last call *)
(*   resolved           the text_regex_index PropertySheet::new computed   *)
(*                      for one transition, and the lists it was computed  *)
(*                      from                                               *)
(***************************************************************************)
VARIABLES pc, input, sheet, tree, cursor, state_stack, child_index_stack,
          last, saved,
          qpc, qinput, query, raw, texts, pulled, yielded, ended, qerr, runs,
          other, resolved

cursor_vars == << pc, input, sheet, tree, cursor, state_stack,
                  child_index_stack, last, saved >>

query_vars == << qpc, qinput, query, raw, texts, pulled, yielded, ended,
                 qerr, runs >>

vars == << cursor_vars, query_vars, other, resolved >>

\* last: op and ret are the call and whether it succeeded (true, Ok or a
\* value); from is the state next_state started from and step what it
\* returned; props is the result of node_properties; before is the stacks
\* saved by the descent a goto_parent undoes; index is the child index a
\* goto_parent popped or the node_child_index a move gave to next_state;
\* err is the error of a call that returned Err.
NoCall == [op |-> "none", ret |-> FALSE, from |-> 0, step |-> None,
           props |-> None, before |-> None, index |-> 0, err |-> None]

Call(op, ret) == [NoCall EXCEPT !.op = op, !.ret = ret]

\* No second cursor: pc is "none", then "walking" or "panicked"; op, ret
\* and props are its last call, as in `last`.
NoCursor == [pc |-> "none", cursor |-> 0, state_stack |-> <<>>,
             child_index_stack |-> <<>>, op |-> "none", ret |-> FALSE,
             props |-> None]

\* No text_regex_index computed.  compiled is the number of patterns
\* compiled before the transition, position where its pattern is among
\* them, text its pattern; index is the text_regex_index computed, length
\* the length of the regex list after it and own the index in that list of
\* the regex of the transition's pattern; panic: the computation panicked.
NotResolved == [op |-> "none", compiled |-> 0, position |-> None,
                text |-> None, panic |-> FALSE, index |-> None,
                length |-> 0, own |-> None]

\* TreePropertyCursor::node_properties: the property set, or a panic when
\* the state or the property set does not exist.
node_properties(sh, stack) ==
    LET top == stack[Len(stack)]
    IN  IF ~InRange(sh.states, top) THEN [panic |-> TRUE, props |-> None]
        ELSE IF ~InRange(sh.property_sets, sh.states[top + 1].property_set_id)
        THEN [panic |-> TRUE, props |-> None]
        ELSE [panic |-> FALSE,
              props |-> Some(sh.property_sets[
                                sh.states[top + 1].property_set_id + 1])]

\* A refused move that pops the state stack all the same.
RefusedPops(op) ==
    /\ last' = Call(op, FALSE)
    /\ state_stack' = Pop(state_stack)
    /\ UNCHANGED << pc, cursor, child_index_stack, saved >>

\* A move the tree cursor refuses: `else { false }`.
Refused(op) ==
    /\ last' = Call(op, FALSE)
    /\ UNCHANGED << pc, cursor, state_stack, child_index_stack, saved >>

\* PropertySheet::new
Compile ==
    /\ pc = "start"
    /\ LET res == PropertySheetNew(input)
       IN  /\ sheet' = res.sheet
           /\ pc' = IF res.ok THEN "compiled" ELSE "rejected"
           /\ last' = [Call("PropertySheet::new", res.ok) EXCEPT
                          !.err = res.err]
    /\ UNCHANGED << input, tree, cursor, state_stack, child_index_stack, saved >>
    /\ UNCHANGED << query_vars, other, resolved >>

\* TreePropertyCursor::new, were the state resolved for the root to take
\* the place of the seed state instead of being pushed on it.
NewUnseeded ==
    /\ pc = "compiled"
    /\ LET step == next_state(sheet, <<0>>, tree[1], 0)
       IN  /\ cursor' = 1
           /\ child_index_stack' = <<0>>
           /\ state_stack' = IF step.panic THEN <<0>>
                             ELSE << step.state_id >>
           /\ pc' = IF step.panic THEN "panicked" ELSE "walking"
           /\ last' = [Call("new", ~step.panic) EXCEPT
                         !.from = 0, !.step = Some(step)]
    /\ UNCHANGED << input, sheet, tree, saved >>
    /\ UNCHANGED << query_vars, other, resolved >>

\* TreePropertyCursor::new
New ==
    /\ pc = "compiled"
    /\ LET step == next_state(sheet, <<0>>, tree[1], 0)
       IN  /\ cursor' = 1
           /\ child_index_stack' = <<0>>
           /\ state_stack' = IF step.panic THEN <<0>>
                             ELSE Push(<<0>>, step.state_id)
           /\ pc' = IF step.panic THEN "panicked" ELSE "walking"
           /\ last' = [Call("new", ~step.panic) EXCEPT
                         !.from = 0, !.step = Some(step)]
    /\ UNCHANGED << input, sheet, tree, saved >>
    /\ UNCHANGED << query_vars, other, resolved >>

\* TreePropertyCursor::goto_first_child
GotoFirstChild ==
    /\ pc = "walking"
    /\ LET child == TsGotoFirstChild(tree, cursor)
           step == next_state(sheet, state_stack, tree[child], 0)
           snapshot == [state_stack |-> state_stack,
                        child_index_stack |-> child_index_stack]
       IN  IF child = 0
           THEN Refused("goto_first_child")
           ELSE /\ cursor' = child
                /\ last' = [Call("goto_first_child", ~step.panic) EXCEPT
                              !.from = state_stack[Len(state_stack)],
                              !.step = Some(step)]
                /\ IF step.panic
                   THEN /\ pc' = "panicked"
                        /\ UNCHANGED << state_stack, child_index_stack, saved >>
                   ELSE /\ state_stack' = Push(state_stack, step.state_id)
                        /\ child_index_stack' = Push(child_index_stack, 0)
                        /\ saved' = Append(saved, snapshot)
                        /\ pc' = pc
    /\ UNCHANGED << input, sheet, tree >>
    /\ UNCHANGED << query_vars, other, resolved >>

\* goto_next_sibling, were next_state called before the state of the
\* sibling that is left is popped.
GotoNextSiblingFromSibling ==
    /\ pc = "walking"
    /\ LET sibling == TsGotoNextSibling(tree, cursor)
           child_index == child_index_stack[Len(child_index_stack)] + 1
           popped == Pop(state_stack)
           popped_index == Pop(child_index_stack)
           step == next_state(sheet, state_stack, tree[sibling], child_index)
       IN  IF sibling = 0
           THEN Refused("goto_next_sibling")
           ELSE /\ cursor' = sibling
                /\ last' = [Call("goto_next_sibling", ~step.panic) EXCEPT
                              !.from = popped[Len(popped)],
                              !.step = Some(step),
                              !.index = child_index,
                              !.before = Some([state_stack |-> state_stack,
                                    child_index_stack |-> child_index_stack])]
                /\ IF step.panic
                   THEN /\ pc' = "panicked"
                        /\ state_stack' = popped
                        /\ child_index_stack' = popped_index
                   ELSE /\ state_stack' = Push(popped, step.state_id)
                        /\ child_index_stack' = Push(popped_index, child_index)
                        /\ pc' = pc
                /\ saved' = saved
    /\ UNCHANGED << input, sheet, tree >>
    /\ UNCHANGED << query_vars, other, resolved >>

\* goto_next_sibling, were the child index popped pushed back as it was.
GotoNextSiblingSameIndex ==
    /\ pc = "walking"
    /\ LET sibling == TsGotoNextSibling(tree, cursor)
           child_index == child_index_stack[Len(child_index_stack)]
           popped == Pop(state_stack)
           popped_index == Pop(child_index_stack)
           step == next_state(sheet, popped, tree[sibling], child_index)
       IN  IF sibling = 0
           THEN Refused("goto_next_sibling")
           ELSE /\ cursor' = sibling
                /\ last' = [Call("goto_next_sibling", ~step.panic) EXCEPT
                              !.from = popped[Len(popped)],
                              !.step = Some(step),
                              !.index = child_index,
                              !.before = Some([state_stack |-> state_stack,
                                    child_index_stack |-> child_index_stack])]
                /\ IF step.panic
                   THEN /\ pc' = "panicked"
                        /\ state_stack' = popped
                        /\ child_index_stack' = popped_index
                   ELSE /\ state_stack' = Push(popped, step.state_id)
                        /\ child_index_stack' = Push(popped_index, child_index)
                        /\ pc' = pc
                /\ saved' = saved
    /\ UNCHANGED << input, sheet, tree >>
    /\ UNCHANGED << query_vars, other, resolved >>

\* TreePropertyCursor::goto_next_sibling
GotoNextSibling ==
    /\ pc = "walking"
    /\ LET sibling == TsGotoNextSibling(tree, cursor)
           child_index == child_index_stack[Len(child_index_stack)] + 1
           popped == Pop(state_stack)
           popped_index == Pop(child_index_stack)
           step == next_state(sheet, popped, tree[sibling], child_index)
       IN  IF sibling = 0
           THEN Refused("goto_next_sibling")
           ELSE /\ cursor' = sibling
                /\ last' = [Call("goto_next_sibling", ~step.panic) EXCEPT
                              !.from = popped[Len(popped)],
                              !.step = Some(step),
                              !.index = child_index,
                              !.before = Some([state_stack |-> state_stack,
                                    child_index_stack |-> child_index_stack])]
                /\ IF step.panic
                   THEN /\ pc' = "panicked"
                        /\ state_stack' = popped
                        /\ child_index_stack' = popped_index
                   ELSE /\ state_stack' = Push(popped, step.state_id)
                        /\ child_index_stack' = Push(popped_index, child_index)
                        /\ pc' = pc
                /\ saved' = saved
    /\ UNCHANGED << input, sheet, tree >>
    /\ UNCHANGED << query_vars, other, resolved >>

\* goto_parent, were the child index of the level that is left to stay
\* on its stack.
GotoParentKeepsIndex ==
    /\ pc = "walking"
    /\ LET parent == TsGotoParent(tree, cursor)
       IN  IF parent = 0
           THEN Refused("goto_parent")
           ELSE /\ cursor' = parent
                /\ pc' = pc
                /\ state_stack' = Pop(state_stack)
                /\ child_index_stack' = child_index_stack
                /\ saved' = Pop(saved)
                /\ last' = [Call("goto_parent", TRUE) EXCEPT
                              !.before = Some(saved[Len(saved)]),
                              !.index =
                                child_index_stack[Len(child_index_stack)]]
    /\ UNCHANGED << input, sheet, tree >>
    /\ UNCHANGED << query_vars, other, resolved >>

\* TreePropertyCursor::goto_parent
GotoParent ==
    /\ pc = "walking"
    /\ LET parent == TsGotoParent(tree, cursor)
       IN  IF parent = 0
           THEN Refused("goto_parent")
           ELSE /\ cursor' = parent
                /\ pc' = pc
                /\ state_stack' = Pop(state_stack)
                /\ child_index_stack' = Pop(child_index_stack)
                /\ saved' = Pop(saved)
                /\ last' = [Call("goto_parent", TRUE) EXCEPT
                              !.before = Some(saved[Len(saved)]),
                              !.index =
                                child_index_stack[Len(child_index_stack)]]
    /\ UNCHANGED << input, sheet, tree >>
    /\ UNCHANGED << query_vars, other, resolved >>

\* TreePropertyCursor::node_properties
NodeProperties ==
    /\ pc = "walking"
    /\ LET res == node_properties(sheet, state_stack)
       IN  /\ pc' = IF res.panic THEN "panicked" ELSE pc
           /\ last' = [Call("node_properties", ~res.panic) EXCEPT
                         !.props = res.props]
    /\ UNCHANGED << input, sheet, tree, cursor, state_stack,
                    child_index_stack, saved >>
    /\ UNCHANGED << query_vars, other, resolved >>

(***************************************************************************)
(* Query::new.  The structural compilation is external: when it succeeds,  *)
(* `q` gives the capture names, the string values and, per pattern, the    *)
(* predicate steps [type, value_id]; when it fails, q.failure gives the    *)
(* error type and the error offset in q.source.                            *)
(***************************************************************************)
\* slice.split(|s| s.type_ == type_done): the runs between the markers, the
\* empty ones included.
RECURSIVE SplitDone(_, _, _)
SplitDone(steps, current, parts) ==
    IF steps = <<>> THEN Append(parts, current)
    ELSE IF Head(steps).type = "done"
    THEN SplitDone(Tail(steps), <<>>, Append(parts, current))
    ELSE SplitDone(Tail(steps), Append(current, Head(steps)), parts)

PredicateError(message) == [kind |-> "Predicate", message |-> message]

\* The capture name and the string value a step refers to.
CaptureName(q, step) == q.capture_names[step.value_id + 1]

StringValue(q, step) == q.string_values[step.value_id + 1]

\* What a clause compiles to: an error, a predicate or a property.
ClauseError(error) == [err |-> Some(error), predicate |-> None, property |-> None]

ClausePredicate(predicate) ==
    [err |-> None, predicate |-> Some(predicate), property |-> None]

ClauseProperty(property) ==
    [err |-> None, predicate |-> None, property |-> Some(property)]

WrongCount(q, p) ==
    PredicateError(<< "Wrong number of arguments", StringValue(q, p[1]),
                      Len(p) - 1 >>)

FirstNotCapture(q, p) ==
    PredicateError(<< "First argument must be a capture name",
                      StringValue(q, p[1]), StringValue(q, p[2]) >>)

\* An eq? clause whose first argument is not looked at.
CompileEqAnyFirst(q, p) ==
    IF Len(p) # 3 THEN ClauseError(WrongCount(q, p))
    ELSE IF p[3].type = "capture"
    THEN ClausePredicate([type |-> "CaptureEqCapture",
                          capture |-> p[2].value_id, other |-> p[3].value_id])
    ELSE ClausePredicate([type |-> "CaptureEqString",
                          capture |-> p[2].value_id,
                          string |-> StringValue(q, p[3])])

\* An eq? clause, were the kind of its first argument checked before the
\* number of its arguments.
CompileEqKindBeforeCount(q, p) ==
    IF Len(p) >= 2 /\ p[2].type # "capture"
    THEN ClauseError(FirstNotCapture(q, p))
    ELSE IF Len(p) # 3 THEN ClauseError(WrongCount(q, p))
    ELSE IF p[3].type = "capture"
    THEN ClausePredicate([type |-> "CaptureEqCapture",
                          capture |-> p[2].value_id, other |-> p[3].value_id])
    ELSE ClausePredicate([type |-> "CaptureEqString",
                          capture |-> p[2].value_id,
                          string |-> StringValue(q, p[3])])

\* The arm "eq?"
CompileEq(q, p) ==
    IF Len(p) # 3 THEN ClauseError(WrongCount(q, p))
    ELSE IF p[2].type # "capture" THEN ClauseError(FirstNotCapture(q, p))
    ELSE IF p[3].type = "capture"
    THEN ClausePredicate([type |-> "CaptureEqCapture",
                          capture |-> p[2].value_id, other |-> p[3].value_id])
    ELSE ClausePredicate([type |-> "CaptureEqString",
                          capture |-> p[2].value_id,
                          string |-> StringValue(q, p[3])])

\* A match? clause whose second argument may be a capture, its name then
\* taken for the pattern.
CompileMatchAnySecond(q, p) ==
    IF Len(p) # 3 THEN ClauseError(WrongCount(q, p))
    ELSE IF p[2].type # "capture" THEN ClauseError(FirstNotCapture(q, p))
    ELSE LET pattern == IF p[3].type = "capture" THEN CaptureName(q, p[3])
                        ELSE StringValue(q, p[3])
             compiled == RegexNew(pattern)
         IN  IF ~compiled.ok
             THEN ClauseError(PredicateError(<< "Invalid regex", pattern >>))
             ELSE ClausePredicate([type |-> "CaptureMatchString",
                                   capture |-> p[2].value_id,
                                   regex |-> compiled.regex])

\* The arm "match?"
CompileMatch(q, p) ==
    IF Len(p) # 3 THEN ClauseError(WrongCount(q, p))
    ELSE IF p[2].type # "capture" THEN ClauseError(FirstNotCapture(q, p))
    ELSE IF p[3].type = "capture"
    THEN ClauseError(PredicateError(
            << "Second argument must be a literal", StringValue(q, p[1]),
               CaptureName(q, p[3]) >>))
    ELSE LET compiled == RegexNew(StringValue(q, p[3]))
         IN  IF ~compiled.ok
             THEN ClauseError(PredicateError(
                     << "Invalid regex", StringValue(q, p[3]) >>))
             ELSE ClausePredicate([type |-> "CaptureMatchString",
                                   capture |-> p[2].value_id,
                                   regex |-> compiled.regex])

\* A set! clause that is checked and then dropped.
CompileSetDropped(q, p) ==
    IF Len(p) # 3 THEN ClauseError(WrongCount(q, p))
    ELSE IF p[2].type # "string" \/ p[3].type # "string"
    THEN ClauseError(PredicateError(
            << "Argument to set! predicate must be strings" >>))
    ELSE [err |-> None, predicate |-> None, property |-> None]

\* The arm "set!"
CompileSet(q, p) ==
    IF Len(p) # 3 THEN ClauseError(WrongCount(q, p))
    ELSE IF p[2].type # "string" \/ p[3].type # "string"
    THEN ClauseError(PredicateError(
            << "Argument to set! predicate must be strings" >>))
    ELSE ClauseProperty(<< StringValue(q, p[2]), StringValue(q, p[3]) >>)

\* A clause with an unknown function name taken for a clause that says
\* nothing.
CompileClauseSkipsUnknown(q, p) ==
    IF p[1].type # "string"
    THEN ClauseError(PredicateError(
            << "Expected predicate to start with a function name",
               CaptureName(q, p[1]) >>))
    ELSE IF StringValue(q, p[1]) = "eq?" THEN CompileEq(q, p)
    ELSE IF StringValue(q, p[1]) = "match?" THEN CompileMatch(q, p)
    ELSE IF StringValue(q, p[1]) = "set!" THEN CompileSet(q, p)
    ELSE [err |-> None, predicate |-> None, property |-> None]

\* One non-empty clause, were its first step taken for a function name
\* without a look at its type.
CompileClauseAnyFirstStep(q, p) ==
    IF StringValue(q, p[1]) = "eq?" THEN CompileEq(q, p)
    ELSE IF StringValue(q, p[1]) = "match?" THEN CompileMatch(q, p)
    ELSE IF StringValue(q, p[1]) = "set!" THEN CompileSet(q, p)
    ELSE ClauseError(PredicateError(
            << "Unknown query predicate function", StringValue(q, p[1]) >>))

\* One non-empty clause p: an error, a predicate or a property.
CompileClause(q, p) ==
    IF p[1].type # "string"
    THEN ClauseError(PredicateError(
            << "Expected predicate to start with a function name",
               CaptureName(q, p[1]) >>))
    ELSE IF StringValue(q, p[1]) = "eq?" THEN CompileEq(q, p)
    ELSE IF StringValue(q, p[1]) = "match?" THEN CompileMatch(q, p)
    ELSE IF StringValue(q, p[1]) = "set!" THEN CompileSet(q, p)
    ELSE ClauseError(PredicateError(
            << "Unknown query predicate function", StringValue(q, p[1]) >>))

\* The loop over the clauses of one pattern; stops at the first error.
RECURSIVE CompileClauses(_, _, _)
CompileClauses(q, clauses, acc) ==
    IF clauses = <<>> \/ IsSome(acc.err) THEN acc
    ELSE IF Head(clauses) = <<>> THEN CompileClauses(q, Tail(clauses), acc)
    ELSE LET c == CompileClause(q, Head(clauses))
         IN  IF IsSome(c.err)
             THEN [acc EXCEPT !.err = c.err]
             ELSE CompileClauses(q, Tail(clauses),
                     [acc EXCEPT
                        !.pattern_predicates =
                            IF IsSome(c.predicate)
                            THEN Append(@, Unwrap(c.predicate)) ELSE @,
                        !.pattern_properties =
                            IF IsSome(c.property)
                            THEN Append(@, Unwrap(c.property)) ELSE @])

\* The loop over the patterns, were it to keep no entry for a pattern that
\* has no clause.
RECURSIVE CompilePatternsSkipsEmpty(_, _, _)
CompilePatternsSkipsEmpty(q, i, result) ==
    IF i >= Len(q.patterns) \/ IsSome(result.err) THEN result
    ELSE LET done == CompileClauses(q, SplitDone(q.patterns[i + 1], <<>>, <<>>),
                        [err |-> None, pattern_predicates |-> <<>>,
                         pattern_properties |-> <<>>])
         IN  IF IsSome(done.err)
             THEN [result EXCEPT !.err = done.err]
             ELSE IF done.pattern_predicates = <<>>
                     /\ done.pattern_properties = <<>>
             THEN CompilePatternsSkipsEmpty(q, i + 1, result)
             ELSE CompilePatternsSkipsEmpty(q, i + 1,
                     [result EXCEPT
                        !.properties = Append(@, done.pattern_properties),
                        !.predicates = Append(@, done.pattern_predicates)])

\* The loop over the patterns; stops at the first error.
RECURSIVE CompilePatterns(_, _, _)
CompilePatterns(q, i, result) ==
    IF i >= Len(q.patterns) \/ IsSome(result.err) THEN result
    ELSE LET done == CompileClauses(q, SplitDone(q.patterns[i + 1], <<>>, <<>>),
                        [err |-> None, pattern_predicates |-> <<>>,
                         pattern_properties |-> <<>>])
         IN  IF IsSome(done.err)
             THEN [result EXCEPT !.err = done.err]
             ELSE CompilePatterns(q, i + 1,
                     [result EXCEPT
                        !.properties = Append(@, done.pattern_properties),
                        !.predicates = Append(@, done.pattern_predicates)])

NoQuery == [capture_names |-> <<>>, predicates |-> <<>>, properties |-> <<>>]

\* char::is_alphanumeric(c) || c == '_' || c == '-', on the characters
\* used: a letter, the two marks and characters that end a name.
IsNameChar(c) == c \in { "a", "_", "-" }

\* suffix.find(|c| !char::is_alphanumeric(c) && c != '_' && c != '-')
FindNameEnd(suffix) ==
    LET ends == { i \in 1..Len(suffix) : ~IsNameChar(suffix[i]) }
    IN  IF ends = {} THEN None
        ELSE Some((CHOOSE i \in ends : \A j \in ends : i <= j) - 1)

\* The branch `if ptr.is_null()`: the error built from the error type and
\* the offset that the structural compilation reported.  split_at panics
\* when its index is beyond the end of the string.
QueryNewFailed(source, error_type, offset) ==
    IF error_type = "Syntax"
    THEN [panic |-> FALSE, err |-> Some([kind |-> "Syntax", offset |-> offset])]
    ELSE LET suffix == SubSeq(source, offset + 1, Len(source))
             found == FindNameEnd(suffix)
             end_offset == IF IsSome(found) THEN Unwrap(found) ELSE Len(source)
         IN  IF end_offset > Len(suffix)
             THEN [panic |-> TRUE, err |-> None]
             ELSE [panic |-> FALSE,
                   err |-> Some([kind |-> error_type,
                                 name |-> SubSeq(suffix, 1, end_offset)])]

\* Query::new: Ok(query) or Err(error), or a panic; an Err carries no
\* query.  q.failure is None when the structural compilation succeeded.
QueryNew(q) ==
    IF IsSome(q.failure)
    THEN LET failed == QueryNewFailed(q.source, Unwrap(q.failure).error_type,
                                      Unwrap(q.failure).error_offset)
         IN  [ok |-> FALSE, panic |-> failed.panic, err |-> failed.err,
              query |-> NoQuery]
    ELSE
    LET done == CompilePatterns(q, 0,
                   [err |-> None, predicates |-> <<>>, properties |-> <<>>])
    IN  IF IsSome(done.err)
        THEN [ok |-> FALSE, panic |-> FALSE, err |-> done.err,
              query |-> NoQuery]
        ELSE [ok |-> TRUE, panic |-> FALSE, err |-> None,
              query |-> [capture_names |-> q.capture_names,
                         predicates |-> done.predicates,
                         properties |-> done.properties]]

(***************************************************************************)
(* QueryCursor: predicate evaluation over one raw match.  A raw match is   *)
(* [pattern_index, captures], a capture [index, node]; text_callback maps  *)
(* a node to its bytes.  unwrap() of an absent capture panics.             *)
(***************************************************************************)
\* capture_for_id(captures, capture_id)
capture_for_id(captures, capture_id) ==
    IF \E k \in 1..Len(captures) : captures[k].index = capture_id
    THEN Some(captures[CHOOSE k \in 1..Len(captures) :
                 /\ captures[k].index = capture_id
                 /\ \A j \in 1..(k - 1) : captures[j].index # capture_id].node)
    ELSE None

\* The closure given to all(): "true", "false" or "panic".
EvalPredicate(predicate, captures, text_callback) ==
    LET node == capture_for_id(captures, predicate.capture)
    IN  IF ~IsSome(node) THEN "panic"
        ELSE IF predicate.type = "CaptureEqCapture"
        THEN LET node2 == capture_for_id(captures, predicate.other)
             IN  IF ~IsSome(node2) THEN "panic"
                 ELSE IF text_callback[Unwrap(node)] = text_callback[Unwrap(node2)]
                 THEN "true" ELSE "false"
        ELSE IF predicate.type = "CaptureEqString"
        THEN IF text_callback[Unwrap(node)] = AsBytes(predicate.string)
             THEN "true" ELSE "false"
        ELSE IF IsMatch(predicate.regex, text_callback[Unwrap(node)])
             THEN "true" ELSE "false"

\* Iterator::all over the predicates: stops at the first that is not true.
RECURSIVE AllPredicates(_, _, _)
AllPredicates(predicates, captures, text_callback) ==
    IF predicates = <<>> THEN "true"
    ELSE LET r == EvalPredicate(Head(predicates), captures, text_callback)
         IN  IF r = "true"
             THEN AllPredicates(Tail(predicates), captures, text_callback)
             ELSE r

\* captures_match_condition(query, captures, pattern_index, text_callback)
captures_match_condition(qry, captures, pattern_index, text_callback) ==
    IF ~InRange(qry.predicates, pattern_index) THEN "panic"
    ELSE AllPredicates(qry.predicates[pattern_index + 1], captures,
                       text_callback)

(***************************************************************************)
(* QueryCursor::matches and QueryCursor::captures.  The match source hands *)
(* out `raw` one match at a time; in captures mode it hands out one        *)
(* (match, capture_index) pair per capture of each match.                  *)
(***************************************************************************)
\* The pairs ts_query_cursor_next_capture produces for the raw matches.
RECURSIVE CaptureItems(_)
CaptureItems(matches) ==
    IF matches = <<>> THEN <<>>
    ELSE [k \in 1..Len(Head(matches).captures) |->
             [match |-> Head(matches), capture_index |-> k - 1]]
         \o CaptureItems(Tail(matches))

\* The body of the closure given to from_fn, in matches mode: take raw
\* matches from position i until one satisfies its predicates.
RECURSIVE ScanMatches(_, _, _, _)
ScanMatches(qry, source, text_callback, i) ==
    IF i >= Len(source) THEN [ret |-> "None", pulled |-> i, item |-> None]
    ELSE LET m == source[i + 1]
             r == captures_match_condition(qry, m.captures, m.pattern_index,
                                           text_callback)
         IN  IF r = "panic"
             THEN [ret |-> "panic", pulled |-> i + 1, item |-> None]
             ELSE IF r = "true"
             THEN [ret |-> "Some", pulled |-> i + 1, item |-> Some(m)]
             ELSE ScanMatches(qry, source, text_callback, i + 1)

\* The same in captures mode, over the (match, capture_index) pairs.
RECURSIVE ScanCaptures(_, _, _, _)
ScanCaptures(qry, items, text_callback, i) ==
    IF i >= Len(items) THEN [ret |-> "None", pulled |-> i, item |-> None]
    ELSE LET m == items[i + 1].match
             r == captures_match_condition(qry, m.captures, m.pattern_index,
                                           text_callback)
             capture == m.captures[items[i + 1].capture_index + 1]
         IN  IF r = "panic"
             THEN [ret |-> "panic", pulled |-> i + 1, item |-> None]
             ELSE IF r = "true"
             THEN [ret |-> "Some", pulled |-> i + 1,
                   item |-> Some(<< m.pattern_index,
                                    [index |-> capture.index,
                                     node |-> capture.node] >>)]
             ELSE ScanCaptures(qry, items, text_callback, i + 1)

\* Query::new
QCompile ==
    /\ qpc = "start"
    /\ LET res == QueryNew(qinput)
       IN  /\ query' = res.query
           /\ qpc' = IF res.panic THEN "new_panicked"
                     ELSE IF res.ok THEN "compiled" ELSE "rejected"
           /\ qerr' = res.err
    /\ UNCHANGED << qinput, raw, texts, pulled, yielded, ended, runs >>
    /\ UNCHANGED << cursor_vars, other, resolved >>

\* The number of finished iterations after which the cursor is not used
\* again.
MaxRuns == 2

\* The cursor can be given to matches or captures: the query is compiled,
\* and an iterator made earlier (it borrows the cursor) has been dropped.
CanExec ==
    /\ qpc \in { "compiled", "matches", "captures" }
    /\ Len(runs) < MaxRuns

\* ts_query_cursor_exec, were the match source to go on from where the
\* iterator made before had left it.
ExecKeepsPosition ==
    /\ pulled' = pulled
    /\ yielded' = <<>>
    /\ ended' = FALSE

\* ts_query_cursor_exec: the match source starts again from its first item.
Exec ==
    /\ pulled' = 0
    /\ yielded' = <<>>
    /\ ended' = FALSE

\* QueryCursor::matches: exec, and the iterator is created
Matches ==
    /\ CanExec
    /\ qpc' = "matches"
    /\ Exec
    /\ UNCHANGED << qinput, query, raw, texts, qerr, runs >>
    /\ UNCHANGED << cursor_vars, other, resolved >>

\* QueryCursor::captures: exec, and the iterator is created
Captures ==
    /\ CanExec
    /\ qpc' = "captures"
    /\ Exec
    /\ UNCHANGED << qinput, query, raw, texts, qerr, runs >>
    /\ UNCHANGED << cursor_vars, other, resolved >>

\* One next() of the iterator, in either mode.
Advance(found) ==
    /\ pulled' = found.pulled
    /\ yielded' = IF found.ret = "Some"
                  THEN Append(yielded, Unwrap(found.item)) ELSE yielded
    /\ ended' = (found.ret = "None")
    /\ qpc' = IF found.ret # "panic" THEN qpc
              ELSE IF qpc = "matches" THEN "matches_panicked"
              ELSE "captures_panicked"

\* next() of the iterator matches returned
NextMatch ==
    /\ qpc = "matches"
    /\ Advance(ScanMatches(query, raw, texts, pulled))
    /\ runs' = IF ~ended /\ ended' THEN Append(runs, yielded') ELSE runs
    /\ UNCHANGED << qinput, query, raw, texts, qerr >>
    /\ UNCHANGED << cursor_vars, other, resolved >>

\* next() of the iterator captures returned
NextCapture ==
    /\ qpc = "captures"
    /\ Advance(ScanCaptures(query, CaptureItems(raw), texts, pulled))
    /\ UNCHANGED << qinput, query, raw, texts, qerr, runs >>
    /\ UNCHANGED << cursor_vars, other, resolved >>

(***************************************************************************)
(* Inputs of the traversal: declarative sheets and trees.                  *)
(***************************************************************************)
\* The largest state id and property set id a declarative sheet refers to;
\* PropertySheet::new does not compare them with the number of states.
MaxStateId == 2

\* The number of nodes of the largest tree.
MaxNodes == 3

TransitionJSON(kind, named, index, field, text, state_id) ==
    [kind |-> kind, named |-> named, index |-> index, field |-> field,
     text |-> text, state_id |-> state_id]

\* Transition clauses of the traversal: on a kind, on a field, on a kind
\* with a text pattern, on a kind with a child index.
Clauses ==
    { TransitionJSON(Some("a"), Some(TRUE), None, None, None, t) :
        t \in 0..MaxStateId }
    \cup { TransitionJSON(None, None, None, Some("f"), None, t) :
             t \in 0..MaxStateId }
    \cup { TransitionJSON(Some("a"), Some(TRUE), None, None, Some("a"), 1),
           TransitionJSON(Some("a"), Some(TRUE), Some(1), None, None, 1) }

StateJSON(property_set_id, transitions, default_next_state_id) ==
    [property_set_id |-> property_set_id, transitions |-> transitions,
     default_next_state_id |-> default_next_state_id]

SheetJSON(states, property_sets) ==
    [parses |-> TRUE, states |-> states, property_sets |-> property_sets]

PropertySets == << "p0", "p1" >>

\* The clause lists of a sheet of two states: at most two clauses in all.
ClauseLists ==
    LET one == { << c >> : c \in Clauses }
        two == { << c, e >> : c \in Clauses, e \in Clauses }
    IN  ({ <<>> } \cup one \cup two) \X { <<>> }
        \cup ({ <<>> } \cup one) \X one
        \cup { <<>> } \X two

\* Sheets of two states, state 0 falling back to itself or to a state that
\* does not exist; and two sheets of no state and of a state whose property
\* set does not exist.
SheetInputs ==
    { SheetJSON(<< StateJSON(1, ts[1], d), StateJSON(0, ts[2], 0) >>,
                PropertySets) :
        ts \in ClauseLists, d \in { 0, MaxStateId } }
    \cup { SheetJSON(<<>>, PropertySets),
           SheetJSON(<< StateJSON(Len(PropertySets), <<>>, 0) >>, PropertySets) }

Texts == << << Byte.a >>, << Byte.b >>, << Byte.b, Byte.ff >> >>

\* The node labels: every kind in {0, 1}, field in {0, 1} and text.
Labels ==
    [i \in 1..(4 * Len(Texts)) |->
        [kind |-> (i - 1) % 2, field |-> ((i - 1) \div 2) % 2,
         text |-> Texts[((i - 1) \div 4) + 1]]]

\* The nodes from k up to the root.
RECURSIVE Chain(_, _)
Chain(parent, k) == IF k = 0 THEN {} ELSE {k} \cup Chain(parent, parent[k])

\* The pre-order parent vectors of the trees of n nodes.
ParentVectors(n) ==
    { parent \in [1..n -> 0..(n - 1)] :
        /\ parent[1] = 0
        /\ \A i \in 2..n : parent[i] \in Chain(parent, i - 1) }

\* The tree of a parent vector, node i labelled Labels[i + rot]; the root
\* has no field.
MkTree(parent, rot) ==
    [i \in DOMAIN parent |->
        LET label == Labels[((i - 1 + rot) % Len(Labels)) + 1]
        IN  [parent |-> parent[i], kind |-> label.kind,
             field |-> IF i = 1 THEN 0 ELSE label.field,
             text |-> label.text]]

Trees ==
    { MkTree(parent, rot) :
        parent \in UNION { ParentVectors(n) : n \in 1..MaxNodes },
        rot \in 0..(Len(Labels) - 1) }

QueryIdle ==
    /\ qpc = "idle"
    /\ qinput = <<>>
    /\ query = NoQuery
    /\ raw = <<>>
    /\ texts = <<>>
    /\ pulled = 0
    /\ yielded = <<>>
    /\ ended = FALSE
    /\ qerr = None
    /\ runs = <<>>

Init ==
    /\ pc = "start"
    /\ input \in SheetInputs
    /\ tree \in Trees
    /\ sheet = NoSheet
    /\ cursor = 0
    /\ state_stack = <<>>
    /\ child_index_stack = <<>>
    /\ last = NoCall
    /\ saved = <<>>
    /\ other = NoCursor
    /\ resolved = NotResolved
    /\ QueryIdle

Next ==
    \/ Compile
    \/ New
    \/ GotoFirstChild
    \/ GotoNextSibling
    \/ GotoParent
    \/ NodeProperties

Spec == Init /\ [][Next]_vars

(***************************************************************************)
(* Properties of the traversal (specification Spec).                       *)
(***************************************************************************)
Moves == { "goto_first_child", "goto_next_sibling", "goto_parent" }

\* The last call was a move or the construction that next_state decided.
Stepped == pc = "walking" /\ IsSome(last.step)

\* C1, as stated: whenever a cursor exists, the active-state stack and the
\* child-index stack both have length depth + 1.
C1_BothStacksDepthPlusOne ==
    pc = "walking" =>
        /\ Len(state_stack) = Depth(tree, cursor) + 1
        /\ Len(child_index_stack) = Depth(tree, cursor) + 1

\* C1, amended: whenever a cursor exists, the child-index stack has length
\* depth + 1 and the active-state stack has length depth + 2 (the seed
\* state 0 below one resolved state per level, the root's included).
C1_StackLengths ==
    pc = "walking" =>
        /\ Len(state_stack) = Depth(tree, cursor) + 2
        /\ Len(child_index_stack) = Depth(tree, cursor) + 1

\* C1: two levels down, after a sibling move that was refused.
C1_Witness ==
    /\ pc = "walking"
    /\ Depth(tree, cursor) = 2
    /\ last.op = "goto_next_sibling"
    /\ ~last.ret

\* C2: a goto_parent leaves both stacks exactly as they were before the
\* goto_first_child it undoes, whatever sibling moves (and balanced
\* descents) came between.
C2_StackBalance ==
    (pc = "walking" /\ last.op = "goto_parent" /\ last.ret) =>
        /\ state_stack = Unwrap(last.before).state_stack
        /\ child_index_stack = Unwrap(last.before).child_index_stack

\* C2: a goto_parent from a child reached by a sibling move.
C2_Witness ==
    /\ pc = "walking"
    /\ last.op = "goto_parent"
    /\ last.ret
    /\ last.index >= 1

\* C3, as stated: for an accepted sheet no call panics, every state id on
\* the stack names a state of the sheet, and node_properties has a property
\* set to return.
C3_NoUndefinedState ==
    /\ pc # "panicked"
    /\ pc = "walking" =>
          /\ \A i \in 1..Len(state_stack) : InRange(sheet.states, state_stack[i])
          /\ ~node_properties(sheet, state_stack).panic

\* C4, as stated: on a node whose text is not valid UTF-8, the transition
\* that decides next_state never carries a regex.
C4_InvalidTextSkipsRegex ==
    (/\ Stepped
     /\ ~Utf8Valid(tree[cursor].text)
     /\ IsSome(Unwrap(last.step).via)) =>
        ~IsSome(Unwrap(Unwrap(last.step).via).text_regex_index)

\* The property set of state t, when both exist.
PropsOfState(sh, t) ==
    IF InRange(sh.states, t)
       /\ InRange(sh.property_sets, sh.states[t + 1].property_set_id)
    THEN Some(sh.property_sets[sh.states[t + 1].property_set_id + 1])
    ELSE None

\* The kind bucket of `state` for kind k holds one transition, which has no
\* constraint.
SingleUnconstrained(state, k) ==
    /\ k \in DOMAIN state.kind_transitions
    /\ Len(state.kind_transitions[k]) = 1
    /\ ~IsSome(state.kind_transitions[k][1].child_index)
    /\ ~IsSome(state.kind_transitions[k][1].text_regex_index)
    /\ ~IsSome(state.kind_transitions[k][1].node_kind_id)

\* C9: node_properties returns (without panicking) the property set of the
\* state on top of the active-state stack; and after construction or a
\* successful move to a node of kind K, computed from a state whose kind
\* bucket for K is a single unconstrained transition to T, node_properties
\* is T's property set.
C9_SingleKindTransitionDecides ==
    /\ ~(pc = "panicked" /\ last.op = "node_properties")
    /\ (pc = "walking" /\ last.op = "node_properties") =>
          /\ IsSome(last.props)
          /\ last.props =
                PropsOfState(sheet, state_stack[Len(state_stack)])
    /\ Stepped =>
          LET from == sheet.states[last.from + 1]
              node == tree[cursor]
              target == from.kind_transitions[node.kind][1].state_id
          IN  SingleUnconstrained(from, node.kind) =>
                /\ IsSome(PropsOfState(sheet, target))
                /\ node_properties(sheet, state_stack) =
                      [panic |-> FALSE,
                       props |-> PropsOfState(sheet, target)]

\* The tree cursor cannot make the move `op` from where it is.
CannotMove(op) ==
    \/ op = "goto_first_child" /\ TsGotoFirstChild(tree, cursor) = 0
    \/ op = "goto_next_sibling" /\ TsGotoNextSibling(tree, cursor) = 0
    \/ op = "goto_parent" /\ TsGotoParent(tree, cursor) = 0

\* C10: a move the tree cursor cannot make returns false and leaves both
\* stacks and the result of node_properties as they were.
C10_RefusedMoveChangesNothing ==
    [][(pc = "walking" /\ last'.op \in Moves /\ CannotMove(last'.op)) =>
          /\ ~last'.ret
          /\ pc' = "walking"
          /\ state_stack' = state_stack
          /\ child_index_stack' = child_index_stack
          /\ node_properties(sheet', state_stack')
                = node_properties(sheet, state_stack)]_vars

\* C10: a goto_first_child was refused on a leaf below the root.
C10_Witness ==
    /\ pc = "walking"
    /\ last.op = "goto_first_child"
    /\ ~last.ret
    /\ Depth(tree, cursor) >= 1
    /\ TsGotoNextSibling(tree, cursor) = 0

(***************************************************************************)
(* Inputs of the queries: the steps ts_query_predicates_for_pattern gives  *)
(* for each pattern, the raw matches of the match source, the node texts.  *)
(***************************************************************************)
\* The longest sequence of raw matches the match source hands out.
MaxRaw == 2

CaptureNames == << "a", "b" >>

StringValues == << "eq?", "match?", "set!", "other?", "a", "b", "(" >>

\* The id of a capture name or of a string value.
ValueId(values, v) == (CHOOSE i \in 1..Len(values) : values[i] = v) - 1

CaptureStep(name) ==
    [type |-> "capture", value_id |-> ValueId(CaptureNames, name)]

StringStep(value) ==
    [type |-> "string", value_id |-> ValueId(StringValues, value)]

DoneStep == [type |-> "done", value_id |-> 0]

\* Clauses Query::new accepts.
ValidClauses ==
    { << StringStep("eq?"), CaptureStep("a"), CaptureStep("b") >>,
      << StringStep("eq?"), CaptureStep("a"), StringStep("a") >>,
      << StringStep("match?"), CaptureStep("a"), StringStep("a") >>,
      << StringStep("match?"), CaptureStep("b"), StringStep("b") >>,
      << StringStep("set!"), StringStep("a"), StringStep("b") >> }

\* Clauses Query::new rejects.
InvalidClauses ==
    { << CaptureStep("a") >>,
      << StringStep("other?"), CaptureStep("a") >>,
      << StringStep("eq?"), CaptureStep("a") >>,
      << StringStep("eq?"), StringStep("a"), StringStep("a") >>,
      << StringStep("match?"), CaptureStep("a") >>,
      << StringStep("match?"), StringStep("a"), StringStep("a") >>,
      << StringStep("match?"), CaptureStep("a"), CaptureStep("b") >>,
      << StringStep("match?"), CaptureStep("a"), StringStep("(") >>,
      << StringStep("set!"), StringStep("a") >>,
      << StringStep("set!"), CaptureStep("a"), StringStep("a") >> }

\* Clauses Query::new rejects for more than one reason: a wrong number of
\* arguments with an argument of the wrong kind, an argument of the
\* wrong kind with a pattern that does not compile.
MixedClauses ==
    { << StringStep("eq?"), StringStep("a") >>,
      << StringStep("set!"), CaptureStep("a") >>,
      << StringStep("match?"), StringStep("a"), StringStep("(") >>,
      << StringStep("match?"), StringStep("a"), CaptureStep("b"),
         StringStep("(") >> }

\* The steps of a pattern: each clause followed by a done step.
RECURSIVE PatternSteps(_)
PatternSteps(clauses) ==
    IF clauses = <<>> THEN <<>>
    ELSE Head(clauses) \o << DoneStep >> \o PatternSteps(Tail(clauses))

\* Queries of two patterns: the first of no clause, one clause or two valid
\* clauses, the second of no clause or of (eq? @a @b).
QueryInputs ==
    LET first == { <<>> }
                 \cup { << c >> : c \in ValidClauses \cup InvalidClauses }
                 \cup { << c, e >> : c \in ValidClauses, e \in ValidClauses }
        second == { <<>>,
                    << << StringStep("eq?"), CaptureStep("a"),
                          CaptureStep("b") >> >> }
    IN  { [capture_names |-> CaptureNames, string_values |-> StringValues,
           patterns |-> << PatternSteps(p), PatternSteps(r) >>,
           failure |-> None] :
            p \in first, r \in second }

\* The predicate steps of queries that are only compiled: none, one or two
\* patterns, the first of up to two clauses of any kind (an empty clause is
\* two done steps in a row), the second of one clause.
CompileInputs ==
    LET clauses == ValidClauses \cup InvalidClauses \cup MixedClauses
                   \cup { <<>> }
        first == { <<>> } \cup { << c >> : c \in clauses }
                 \cup { << c, e >> : c \in clauses, e \in clauses }
        second == { <<>>,
                    << << StringStep("set!"), StringStep("b"),
                          StringStep("a") >> >>,
                    << << StringStep("eq?"), CaptureStep("a"),
                          CaptureStep("b") >> >>,
                    << << StringStep("other?"), CaptureStep("a") >> >> }
        steps_of(patterns) ==
            [capture_names |-> CaptureNames, string_values |-> StringValues,
             patterns |-> patterns, failure |-> None]
    IN  { steps_of(<<>>) }
        \cup { steps_of(<< PatternSteps(p) >>) : p \in first }
        \cup { steps_of(<< PatternSteps(p), PatternSteps(r) >>) :
                 p \in first, r \in second }

\* Capture a is on node 1 and capture b on node 2.
QueryCapture(name) ==
    [index |-> ValueId(CaptureNames, name),
     node |-> ValueId(CaptureNames, name) + 1]

\* The raw matches: of pattern 0 with no capture, with a, with a and b; of
\* pattern 1 with a and b.
RawMatches ==
    { [pattern_index |-> 0, captures |-> <<>>],
      [pattern_index |-> 0, captures |-> << QueryCapture("a") >>],
      [pattern_index |-> 0,
       captures |-> << QueryCapture("a"), QueryCapture("b") >>],
      [pattern_index |-> 1,
       captures |-> << QueryCapture("a"), QueryCapture("b") >>] }

RawInputs == UNION { [1..n -> RawMatches] : n \in 0..MaxRaw }

\* The text accessor: the bytes of node 1 and of node 2.
TextInputs ==
    { << t, u >> : t \in { << Byte.a >>, << Byte.b >>, << Byte.a, Byte.ff >> },
                   u \in { << Byte.a >>, << Byte.b >> } }

CursorIdle ==
    /\ pc = "idle"
    /\ input = SheetJSON(<<>>, <<>>)
    /\ tree = <<>>
    /\ sheet = NoSheet
    /\ cursor = 0
    /\ state_stack = <<>>
    /\ child_index_stack = <<>>
    /\ last = NoCall
    /\ saved = <<>>
    /\ other = NoCursor
    /\ resolved = NotResolved

InitQuery ==
    /\ qpc = "start"
    /\ \/ /\ qinput \in QueryInputs
          /\ raw \in RawInputs
          /\ texts \in TextInputs
       \/ /\ qinput \in CompileInputs
          /\ raw = <<>>
          /\ texts = << << Byte.a >>, << Byte.a >> >>
    /\ query = NoQuery
    /\ pulled = 0
    /\ yielded = <<>>
    /\ ended = FALSE
    /\ qerr = None
    /\ runs = <<>>
    /\ CursorIdle

NextQuery ==
    \/ QCompile
    \/ Matches
    \/ Captures
    \/ NextMatch
    \/ NextCapture

SpecQuery == InitQuery /\ [][NextQuery]_vars

(***************************************************************************)
(* Properties of the queries (specification SpecQuery).                    *)
(***************************************************************************)
Panicked == { "matches_panicked", "captures_panicked" }

InMatches == qpc \in { "matches", "matches_panicked" }

InCaptures == qpc \in { "captures", "captures_panicked" }

\* The raw match the iterator pulled last (pulled >= 1).
PulledMatch(n) ==
    IF InMatches THEN raw[n] ELSE CaptureItems(raw)[n].match

\* A predicate of the pattern of raw match m refers to a capture that m
\* does not have.
RefersToAbsent(m) ==
    \E k \in 1..Len(query.predicates[m.pattern_index + 1]) :
        LET predicate == query.predicates[m.pattern_index + 1][k]
        IN  \/ ~IsSome(capture_for_id(m.captures, predicate.capture))
            \/ /\ predicate.type = "CaptureEqCapture"
               /\ ~IsSome(capture_for_id(m.captures, predicate.other))

\* All the predicates of the pattern of raw match m are true of it; a
\* predicate on an absent capture is not.
Satisfied(m) ==
    captures_match_condition(query, m.captures, m.pattern_index, texts)
        = "true"

\* C5: evaluating the predicates of a raw match, one of which refers to a
\* capture the match does not have, never panics: the iterator goes on.
C5_AbsentCaptureFailsPredicate ==
    (InMatches \/ InCaptures) /\ pulled >= 1 /\ RefersToAbsent(PulledMatch(pulled))
        => qpc \notin Panicked

\* C6: once the iterator of matches is over, what it returned is the raw
\* matches that satisfy the predicates of their pattern, in source order.
C6_MatchesIsFilteredSubsequence ==
    (InMatches /\ (ended \/ qpc \in Panicked)) =>
        yielded = SelectSeq(raw, Satisfied)

\* The item captures returns for a (match, capture_index) pair.
CaptureItem(item) ==
    << item.match.pattern_index,
       item.match.captures[item.capture_index + 1] >>

SatisfiedItem(item) == Satisfied(item.match)

\* C7: once the iterator of captures is over, what it returned is the raw
\* (pattern_index, capture) items whose owning match satisfies all the
\* predicates of its pattern, in raw-capture order.
C7_CapturesIffOwningMatchSatisfied ==
    (InCaptures /\ (ended \/ qpc \in Panicked)) =>
        LET kept == SelectSeq(CaptureItems(raw), SatisfiedItem)
        IN  yielded = [k \in 1..Len(kept) |-> CaptureItem(kept[k])]

\* Raw match m has a capture that a match? predicate of its pattern tests
\* and whose text is not valid UTF-8.
TestsInvalidText(m) ==
    \E k \in 1..Len(query.predicates[m.pattern_index + 1]) :
        LET predicate == query.predicates[m.pattern_index + 1][k]
            node == capture_for_id(m.captures, predicate.capture)
        IN  /\ predicate.type = "CaptureMatchString"
            /\ IsSome(node)
            /\ ~Utf8Valid(texts[Unwrap(node)])

\* C8: neither iterator returns an item of a raw match that has a capture
\* tested by match? whose text is not valid UTF-8.
C8_InvalidTextNeverMatches ==
    [][Len(yielded') > Len(yielded) => ~TestsInvalidText(PulledMatch(pulled'))]_vars

(***************************************************************************)
(* PropertySheet::new alone (specification SpecSheet): declarative sheets  *)
(* with text patterns that repeat, differ or do not compile, and an input  *)
(* that is not a sheet.                                                    *)
(***************************************************************************)
\* Transitions on kind a with or without a text pattern, on field f with a
\* text pattern, and on a kind and namedness that no kind id has.
\* The fields named are fields of the language.  The clauses that name a
\* field lead to state 1 and the others to state 0, and the clauses that
\* name a field differ by their text or child index: a compiled
\* transition tells the clause it comes from.
PatternClauses ==
    { TransitionJSON(Some("a"), Some(TRUE), None, None, text, 0) :
        text \in { None, Some("a"), Some("b"), Some("ab"), Some("(") } }
    \cup { TransitionJSON(None, None, None, Some("f"), Some(text), 1) :
             text \in { "a", "b", "(" } }
    \cup { TransitionJSON(Some("b"), Some(FALSE), None, None, Some("b"), 0),
           TransitionJSON(Some("a"), Some(TRUE), None, Some("f"), None, 1),
           TransitionJSON(None, None, Some(1), Some("g"), None, 1) }

\* The transitions of one state: none, one or two.
PatternClauseLists ==
    { <<>> } \cup { << c >> : c \in PatternClauses }
    \cup { << c, e >> : c \in PatternClauses, e \in PatternClauses }

NotJSON == [parses |-> FALSE, states |-> <<>>, property_sets |-> <<>>]

PatternSheetInputs ==
    { SheetJSON(<< StateJSON(0, ts, 0) >>, PropertySets) :
        ts \in PatternClauseLists }
    \cup { SheetJSON(<< StateJSON(0, ts, 0), StateJSON(1, us, 0) >>,
                     PropertySets) :
             ts \in PatternClauseLists, us \in PatternClauseLists }
    \cup { SheetJSON(<<>>, PropertySets), NotJSON }

InitSheet ==
    /\ pc = "start"
    /\ input \in PatternSheetInputs
    /\ tree = MkTree(<< 0 >>, 0)
    /\ sheet = NoSheet
    /\ cursor = 0
    /\ state_stack = <<>>
    /\ child_index_stack = <<>>
    /\ last = NoCall
    /\ saved = <<>>
    /\ other = NoCursor
    /\ resolved = NotResolved
    /\ QueryIdle

NextSheet == Compile

SpecSheet == InitSheet /\ [][NextSheet]_vars

\* The transitions of the states of a declarative sheet, in order.
RECURSIVE AllTransitions(_)
AllTransitions(json_states) ==
    IF json_states = <<>> THEN <<>>
    ELSE Head(json_states).transitions \o AllTransitions(Tail(json_states))

\* The transitions of a declarative sheet that have a text pattern.
WithText(json) ==
    SelectSeq(AllTransitions(json.states), LAMBDA t : IsSome(t.text))

\* The distinct text patterns of a declarative sheet.
Literals(json) ==
    { Unwrap(WithText(json)[i].text) : i \in 1..Len(WithText(json)) }

\* The compiled transitions that come from transition t of state s: those
\* of the bucket of kind a (named) or of the field t names.
CompiledFrom(s, t) ==
    LET state == sheet.states[s]
        bucket == IF IsSome(t.field)
                  THEN state.field_transitions[
                           Unwrap(field_id_for_name(Unwrap(t.field)))]
                  ELSE state.kind_transitions[0]
    IN  { bucket[i] : i \in 1..Len(bucket) }

\* C11: the regex list of an accepted sheet has exactly one entry for each
\* distinct text pattern of the sheet's transitions, and the transitions
\* with the same pattern refer to that one entry.
C11_RegexListDeduplicated ==
    pc = "compiled" =>
        /\ Len(sheet.text_regexes) = Cardinality(Literals(input))
        /\ \A l \in Literals(input) :
              Cardinality({ i \in 1..Len(sheet.text_regexes) :
                              sheet.text_regexes[i] = RegexNew(l).regex }) = 1
        /\ \A s \in 1..Len(input.states) :
              \A k \in 1..Len(input.states[s].transitions) :
                 LET t == input.states[s].transitions[k]
                 IN  (IsSome(t.text) /\ t.named # Some(FALSE)) =>
                        \E tr \in CompiledFrom(s, t) :
                           /\ IsSome(tr.text_regex_index)
                           /\ sheet.text_regexes[
                                  Unwrap(tr.text_regex_index) + 1]
                                = RegexNew(Unwrap(t.text)).regex

\* C11: an accepted sheet with two distinct patterns, one of them in more
\* than one transition and in both states.
C11_Witness ==
    /\ pc = "compiled"
    /\ Cardinality(Literals(input)) = 2
    /\ Len(WithText(input)) >= 3
    /\ Len(input.states) = 2
    /\ \E l \in Literals(input) :
          \A s \in 1..2 : \E k \in 1..Len(input.states[s].transitions) :
             input.states[s].transitions[k].text = Some(l)

\* The text patterns of a declarative sheet that do not compile.
InvalidLiterals(json) == { l \in Literals(json) : ~RegexNew(l).ok }

\* C12: PropertySheet::new returns InvalidJSON for an input that does not
\* parse and InvalidRegex, with the compile error, when a text pattern of
\* any transition does not compile; with an error no sheet is returned.
C12_CompilationIsAtomic ==
    last.op = "PropertySheet::new" =>
        /\ ~input.parses =>
              /\ pc = "rejected"
              /\ IsSome(last.err)
              /\ Unwrap(last.err).kind = "InvalidJSON"
        /\ (input.parses /\ InvalidLiterals(input) # {}) =>
              /\ pc = "rejected"
              /\ IsSome(last.err)
              /\ Unwrap(last.err).kind = "InvalidRegex"
              /\ \E l \in InvalidLiterals(input) :
                    Unwrap(last.err).error = RegexNew(l).error
        /\ pc = "rejected" => (~last.ret /\ sheet = NoSheet)
        /\ pc = "compiled" => (last.ret /\ ~IsSome(last.err))

\* C12: a sheet rejected for the last pattern of its second state, after a
\* first state whose patterns compile.
C12_Witness ==
    /\ pc = "rejected"
    /\ Unwrap(last.err).kind = "InvalidRegex"
    /\ Len(input.states) = 2
    /\ Len(input.states[1].transitions) = 2
    /\ \A k \in 1..2 : input.states[1].transitions[k].text \in
                          { Some("a"), Some("b") }
    /\ Len(input.states[2].transitions) = 2
    /\ input.states[2].transitions[1].text = Some("a")
    /\ input.states[2].transitions[2].text = Some("(")

(***************************************************************************)
(* Properties of Query::new (specification SpecQuery).  The clauses of a   *)
(* query are the non-empty runs of steps between done steps, pattern by    *)
(* pattern.                                                                *)
(***************************************************************************)
\* The clauses of pattern i (from 1) of the steps q, in order.
ClausesOf(q, i) ==
    SelectSeq(SplitDone(q.patterns[i], <<>>, <<>>), LAMBDA p : p # <<>>)

\* The clauses of the patterns from i on, in order.
RECURSIVE ClausesFrom(_, _)
ClausesFrom(q, i) ==
    IF i > Len(q.patterns) THEN <<>>
    ELSE ClausesOf(q, i) \o ClausesFrom(q, i + 1)

QueryClauses(q) == ClausesFrom(q, 1)

\* Clause p starts with the function name `name`.
Names(q, p, name) == p[1].type = "string" /\ StringValue(q, p[1]) = name

KnownFunctions == { "eq?", "match?", "set!" }

\* Clause p starts with a function name that is none of eq?, match?, set!.
UnknownFunction(q, p) ==
    p[1].type = "string" /\ StringValue(q, p[1]) \notin KnownFunctions

\* The argument conditions of the three functions.
EqArguments(p) == Len(p) = 3 /\ p[2].type = "capture"

MatchArguments(q, p) ==
    /\ Len(p) = 3
    /\ p[2].type = "capture"
    /\ p[3].type = "string"
    /\ RegexNew(StringValue(q, p[3])).ok

SetArguments(p) == Len(p) = 3 /\ p[2].type = "string" /\ p[3].type = "string"

\* Clause p is one Query::new accepts.
Accepted(q, p) ==
    \/ Names(q, p, "eq?") /\ EqArguments(p)
    \/ Names(q, p, "match?") /\ MatchArguments(q, p)
    \/ Names(q, p, "set!") /\ SetArguments(p)

\* Query::new has returned.
Compiled == qpc \in { "compiled", "rejected" }

\* Query::new returned a Predicate error and no query.
RejectedPredicate ==
    /\ qpc = "rejected"
    /\ IsSome(qerr)
    /\ Unwrap(qerr).kind = "Predicate"
    /\ query = NoQuery

UnknownMessage(name) == << "Unknown query predicate function", name >>

\* C13, as stated: when a clause has a function name other than eq?,
\* match? and set!, Query::new returns a Predicate error that names an
\* unrecognized function of the query, and no query.
C13_UnknownFunctionNamed ==
    LET clauses == QueryClauses(qinput)
        unknown == { k \in 1..Len(clauses) : UnknownFunction(qinput, clauses[k]) }
    IN  (Compiled /\ unknown # {}) =>
           /\ RejectedPredicate
           /\ \E k \in unknown :
                 Unwrap(qerr).message =
                     UnknownMessage(StringValue(qinput, clauses[k][1]))

\* C13, amended: when a clause has a function name other than eq?, match?
\* and set!, Query::new returns a Predicate error and no query; the error
\* is that of the first clause, in pattern and clause order, that is not
\* accepted, and names the unrecognized function when that clause is one
\* with an unrecognized function name.
C13_UnknownFunctionRejected ==
    LET clauses == QueryClauses(qinput)
        unknown == { k \in 1..Len(clauses) : UnknownFunction(qinput, clauses[k]) }
        failing == { k \in 1..Len(clauses) : ~Accepted(qinput, clauses[k]) }
    IN  (Compiled /\ unknown # {}) =>
           /\ RejectedPredicate
           /\ \A k \in unknown :
                 (\A j \in failing : k <= j) =>
                     Unwrap(qerr).message =
                         UnknownMessage(StringValue(qinput, clauses[k][1]))

\* C13: a query rejected for an unrecognized function in its second
\* pattern, after a first pattern whose clauses are accepted.
C13_Witness ==
    /\ RejectedPredicate
    /\ Unwrap(qerr).message = UnknownMessage("other?")
    /\ Len(qinput.patterns) = 2
    /\ Len(ClausesOf(qinput, 1)) = 2
    /\ \A k \in 1..2 : Accepted(qinput, ClausesOf(qinput, 1)[k])

\* The clauses of pattern i that start with the function name `name`.
ClausesNamed(q, i, name) ==
    SelectSeq(ClausesOf(q, i), LAMBDA p : Names(q, p, name))

\* Every clause of the query that does not start with `name` is accepted.
OthersAccepted(q, name) ==
    \A k \in 1..Len(QueryClauses(q)) :
        Names(q, QueryClauses(q)[k], name) \/ Accepted(q, QueryClauses(q)[k])

\* Every clause of the query that starts with `name` has the arguments
\* that function takes.
AllNamed(q, name) ==
    \A k \in 1..Len(QueryClauses(q)) :
        Names(q, QueryClauses(q)[k], name) => Accepted(q, QueryClauses(q)[k])

\* The predicate an eq? clause with two arguments stands for.
EqPredicate(q, p) ==
    IF p[3].type = "capture"
    THEN [type |-> "CaptureEqCapture", capture |-> p[2].value_id,
          other |-> p[3].value_id]
    ELSE [type |-> "CaptureEqString", capture |-> p[2].value_id,
          string |-> StringValue(q, p[3])]

\* C14: an eq? clause compiles exactly when it has two arguments, the first
\* a capture; it gives a capture-equals-capture predicate when the second
\* is a capture and a capture-equals-string predicate when it is a literal;
\* any other eq? clause makes Query::new fail.
C14_EqClause ==
    Compiled =>
        /\ ~AllNamed(qinput, "eq?") => RejectedPredicate
        /\ OthersAccepted(qinput, "eq?") =>
              (qpc # "rejected" <=> AllNamed(qinput, "eq?"))
        /\ qpc # "rejected" =>
              \A i \in 1..Len(qinput.patterns) :
                 SelectSeq(query.predicates[i],
                           LAMBDA pr : pr.type \in { "CaptureEqCapture",
                                                     "CaptureEqString" })
                   = [k \in 1..Len(ClausesNamed(qinput, i, "eq?")) |->
                        EqPredicate(qinput, ClausesNamed(qinput, i, "eq?")[k])]

\* C14: a compiled query one pattern of which has an eq? clause on two
\* captures and an eq? clause on a capture and a literal.
C14_Witness ==
    /\ qpc = "compiled"
    /\ \E i \in 1..Len(query.predicates) :
          /\ Len(query.predicates[i]) = 2
          /\ { query.predicates[i][k].type : k \in 1..2 }
               = { "CaptureEqCapture", "CaptureEqString" }

\* The predicate a match? clause with a capture and a pattern stands for.
MatchPredicate(q, p) ==
    [type |-> "CaptureMatchString", capture |-> p[2].value_id,
     regex |-> RegexNew(StringValue(q, p[3])).regex]

\* C15: a match? clause compiles exactly when it has two arguments, the
\* first a capture and the second a literal that is a valid regex; a
\* capture as second argument, a literal as first argument, another number
\* of arguments or an invalid regex makes Query::new fail with a Predicate
\* error.
C15_MatchClause ==
    Compiled =>
        /\ ~AllNamed(qinput, "match?") => RejectedPredicate
        /\ OthersAccepted(qinput, "match?") =>
              (qpc # "rejected"
                 <=> AllNamed(qinput, "match?"))
        /\ qpc # "rejected" =>
              \A i \in 1..Len(qinput.patterns) :
                 SelectSeq(query.predicates[i],
                           LAMBDA pr : pr.type = "CaptureMatchString")
                   = [k \in 1..Len(ClausesNamed(qinput, i, "match?")) |->
                        MatchPredicate(qinput,
                                       ClausesNamed(qinput, i, "match?")[k])]

\* C15: a query rejected for the regex of a match? clause that follows an
\* accepted match? clause.
C15_Witness ==
    /\ RejectedPredicate
    /\ Unwrap(qerr).message = << "Invalid regex", "(" >>
    /\ Len(ClausesNamed(qinput, 1, "match?")) = 2

\* The steps q without their set! clauses.
StripSet(q) ==
    [q EXCEPT !.patterns =
        [i \in 1..Len(q.patterns) |->
            PatternSteps(SelectSeq(ClausesOf(q, i),
                                   LAMBDA p : ~Names(q, p, "set!")))]]

\* The property a set! clause with two literals declares.
SetProperty(q, p) == << StringValue(q, p[2]), StringValue(q, p[3]) >>

\* C16: a set! clause with two literal arguments adds no predicate and
\* appends its (key, value) to the properties of its own pattern, in clause
\* order; the iterators of matches and captures return what they return
\* for the query without its set! clauses; a set! clause with another
\* number of arguments or a capture argument makes Query::new fail.
C16_SetClause ==
    /\ Compiled =>
          /\ ~AllNamed(qinput, "set!") => RejectedPredicate
          /\ qpc # "rejected" =>
                \A i \in 1..Len(qinput.patterns) :
                   /\ query.properties[i]
                        = [k \in 1..Len(ClausesNamed(qinput, i, "set!")) |->
                             SetProperty(qinput,
                                         ClausesNamed(qinput, i, "set!")[k])]
                   /\ Len(query.predicates[i])
                        = Len(ClausesOf(qinput, i))
                            - Len(ClausesNamed(qinput, i, "set!"))
    /\ qpc \in { "compiled", "matches", "captures" } =>
          LET stripped == QueryNew(StripSet(qinput))
          IN  /\ stripped.ok
              /\ qpc = "matches" =>
                    ScanMatches(query, raw, texts, pulled)
                      = ScanMatches(stripped.query, raw, texts, pulled)
              /\ qpc = "captures" =>
                    ScanCaptures(query, CaptureItems(raw), texts, pulled)
                      = ScanCaptures(stripped.query, CaptureItems(raw), texts,
                                     pulled)

\* C16: matches has returned a raw match of the first pattern, and not all
\* the raw matches, for a query whose first pattern has a set! clause and a
\* predicate.
C16_Witness ==
    /\ qpc = "matches"
    /\ ended
    /\ yielded # <<>>
    /\ Len(yielded) < Len(raw)
    /\ yielded[1].pattern_index = 0
    /\ Len(query.properties[1]) = 1
    /\ Len(query.predicates[1]) = 1

\* The predicate an accepted eq? or match? clause stands for.
PredicateOf(q, p) ==
    IF Names(q, p, "eq?") THEN EqPredicate(q, p) ELSE MatchPredicate(q, p)

\* C17: a compiled query has one entry of predicates and one entry of
\* properties for each pattern, entry i holding those of the clauses of
\* pattern i in clause order, empty for a pattern that has none.
C17_OneEntryPerPattern ==
    qpc = "compiled" =>
        /\ Len(query.predicates) = Len(qinput.patterns)
        /\ Len(query.properties) = Len(qinput.patterns)
        /\ \A i \in 1..Len(qinput.patterns) :
              LET filters == SelectSeq(ClausesOf(qinput, i),
                                LAMBDA p : ~Names(qinput, p, "set!"))
                  sets == ClausesNamed(qinput, i, "set!")
              IN  /\ query.predicates[i]
                       = [k \in 1..Len(filters) |->
                            PredicateOf(qinput, filters[k])]
                  /\ query.properties[i]
                       = [k \in 1..Len(sets) |-> SetProperty(qinput, sets[k])]

\* C17: a compiled query of two patterns, the first with no clause and the
\* second with one.
C17_Witness ==
    /\ qpc = "compiled"
    /\ Len(qinput.patterns) = 2
    /\ ClausesOf(qinput, 1) = <<>>
    /\ Len(ClausesOf(qinput, 2)) = 1
    /\ query.predicates[1] = <<>>
    /\ query.properties[1] = <<>>

(***************************************************************************)
(* Properties of the iterators of QueryCursor (specification SpecQuery).   *)
(***************************************************************************)
IsPrefix(s, t) == Len(s) <= Len(t) /\ s = SubSeq(t, 1, Len(s))

\* C18: the evaluations of matches that ran to their end over the same
\* query, raw matches and text accessor yielded the same sequence, and an
\* evaluation under way has yielded a prefix of it, whatever iterator of
\* matches or captures was made, used or abandoned before.
C18_MatchesDeterministic ==
    /\ \A i, j \in 1..Len(runs) : runs[i] = runs[j]
    /\ (InMatches /\ runs # <<>>) => IsPrefix(yielded, runs[1])

\* C18: two evaluations of matches ran to their end, and yielded some but
\* not all of the raw matches.
C18_Witness ==
    /\ Len(runs) = 2
    /\ runs[1] # <<>>
    /\ Len(runs[1]) < Len(raw)

(***************************************************************************)
(* One iterator pulled to its end (specification SpecPull): the query is   *)
(* compiled, matches or captures is called once, and the caller keeps      *)
(* calling next() on the iterator it got.                                  *)
(***************************************************************************)
\* matches on a cursor no iterator was made of yet
FirstMatches == qpc = "compiled" /\ Matches

\* captures on a cursor no iterator was made of yet
FirstCaptures == qpc = "compiled" /\ Captures

NextPull ==
    \/ QCompile
    \/ FirstMatches
    \/ FirstCaptures
    \/ NextMatch
    \/ NextCapture

\* The queries that are given raw matches, over every sequence of raw
\* matches and one text accessor under which (eq? @a @b) holds and one
\* under which it does not.
InitPull ==
    /\ InitQuery
    /\ qinput \in QueryInputs
    /\ texts[1] = << Byte.a >>

\* The caller that pulls repeatedly: a next() that can be called is called.
SpecPull ==
    /\ InitPull
    /\ [][NextPull]_vars
    /\ WF_vars(NextMatch)
    /\ WF_vars(NextCapture)

\* What the match source hands out in the mode of the iterator.
Source == IF InCaptures THEN CaptureItems(raw) ELSE raw

\* C20: an iterator that is pulled repeatedly eventually returns None; it
\* has then taken every item of the match source, its position in the
\* source only ever moved forward, and once it returned None it yields
\* nothing more.
C20_PullsReachEnd ==
    /\ (qpc \in { "matches", "captures" }) ~> ended
    /\ [](ended => pulled = Len(Source))
    /\ [][/\ pulled' >= pulled
          /\ ended => (ended' /\ yielded' = yielded)]_vars

(***************************************************************************)
(* Two cursors of one sheet (specification SpecShared).  The first is the  *)
(* cursor of the traversal above; the second, `other`, is made of the same *)
(* &PropertySheet and the same tree, and its calls are interleaved with    *)
(* those of the first in any order.  The operators below are the methods   *)
(* of TreePropertyCursor as functions of the cursor they are called on.    *)
(***************************************************************************)
Returned(c, op, ret) == [c EXCEPT !.op = op, !.ret = ret, !.props = None]

\* TreePropertyCursor::new
NewOf(sh, tr) ==
    LET step == next_state(sh, <<0>>, tr[1], 0)
        c == [NoCursor EXCEPT !.cursor = 1, !.child_index_stack = <<0>>]
    IN  IF step.panic
        THEN [Returned(c, "new", FALSE) EXCEPT
                !.pc = "panicked", !.state_stack = <<0>>]
        ELSE [Returned(c, "new", TRUE) EXCEPT
                !.pc = "walking", !.state_stack = Push(<<0>>, step.state_id)]

\* TreePropertyCursor::goto_first_child
GotoFirstChildOf(sh, tr, c) ==
    LET child == TsGotoFirstChild(tr, c.cursor)
        step == next_state(sh, c.state_stack, tr[child], 0)
    IN  IF child = 0 THEN Returned(c, "goto_first_child", FALSE)
        ELSE IF step.panic
        THEN [Returned(c, "goto_first_child", FALSE) EXCEPT
                !.pc = "panicked", !.cursor = child]
        ELSE [Returned(c, "goto_first_child", TRUE) EXCEPT
                !.cursor = child,
                !.state_stack = Push(c.state_stack, step.state_id),
                !.child_index_stack = Push(c.child_index_stack, 0)]

\* TreePropertyCursor::goto_next_sibling
GotoNextSiblingOf(sh, tr, c) ==
    LET sibling == TsGotoNextSibling(tr, c.cursor)
        child_index == c.child_index_stack[Len(c.child_index_stack)] + 1
        popped == Pop(c.state_stack)
        popped_index == Pop(c.child_index_stack)
        step == next_state(sh, popped, tr[sibling], child_index)
    IN  IF sibling = 0 THEN Returned(c, "goto_next_sibling", FALSE)
        ELSE IF step.panic
        THEN [Returned(c, "goto_next_sibling", FALSE) EXCEPT
                !.pc = "panicked", !.cursor = sibling,
                !.state_stack = popped, !.child_index_stack = popped_index]
        ELSE [Returned(c, "goto_next_sibling", TRUE) EXCEPT
                !.cursor = sibling,
                !.state_stack = Push(popped, step.state_id),
                !.child_index_stack = Push(popped_index, child_index)]

\* TreePropertyCursor::goto_parent
GotoParentOf(tr, c) ==
    LET parent == TsGotoParent(tr, c.cursor)
    IN  IF parent = 0 THEN Returned(c, "goto_parent", FALSE)
        ELSE [Returned(c, "goto_parent", TRUE) EXCEPT
                !.cursor = parent,
                !.state_stack = Pop(c.state_stack),
                !.child_index_stack = Pop(c.child_index_stack)]

\* TreePropertyCursor::node_properties
NodePropertiesOf(sh, c) ==
    LET res == node_properties(sh, c.state_stack)
    IN  [Returned(c, "node_properties", ~res.panic) EXCEPT
           !.pc = IF res.panic THEN "panicked" ELSE c.pc,
           !.props = res.props]

\* What the call `op` makes of a cursor that runs alone on sheet sh and
\* tree tr.
Alone(sh, tr, c, op) ==
    CASE op = "new" -> NewOf(sh, tr)
      [] op = "goto_first_child" -> GotoFirstChildOf(sh, tr, c)
      [] op = "goto_next_sibling" -> GotoNextSiblingOf(sh, tr, c)
      [] op = "goto_parent" -> GotoParentOf(tr, c)
      [] op = "node_properties" -> NodePropertiesOf(sh, c)

\* A call on the second cursor, were the state stack kept with the sheet
\* and so the same for every cursor of the sheet.
OtherBecomesSharingStack(c) ==
    /\ other' = c
    /\ state_stack' = c.state_stack
    /\ UNCHANGED << pc, input, sheet, tree, cursor, child_index_stack, last,
                    saved >>
    /\ UNCHANGED << query_vars, resolved >>

\* A call on the second cursor: its fields are its own, the sheet is
\* behind a shared reference.
OtherBecomes(c) ==
    /\ other' = c
    /\ UNCHANGED cursor_vars
    /\ UNCHANGED << query_vars, resolved >>

\* The sheet was compiled; the first cursor may exist, and may have
\* panicked in its own thread.
SheetShared == pc \in { "compiled", "walking", "panicked" }

OtherNew ==
    /\ SheetShared
    /\ other.pc = "none"
    /\ OtherBecomes(NewOf(sheet, tree))

OtherGotoFirstChild ==
    /\ SheetShared
    /\ other.pc = "walking"
    /\ OtherBecomes(GotoFirstChildOf(sheet, tree, other))

OtherGotoNextSibling ==
    /\ SheetShared
    /\ other.pc = "walking"
    /\ OtherBecomes(GotoNextSiblingOf(sheet, tree, other))

OtherGotoParent ==
    /\ SheetShared
    /\ other.pc = "walking"
    /\ OtherBecomes(GotoParentOf(tree, other))

OtherNodeProperties ==
    /\ SheetShared
    /\ other.pc = "walking"
    /\ OtherBecomes(NodePropertiesOf(sheet, other))

\* Sheets of at most one transition clause, and the trees of MaxNodes nodes
\* under four labellings.
SharedSheets ==
    { s \in SheetInputs :
        Len(s.states) = 2 =>
            Len(s.states[1].transitions) + Len(s.states[2].transitions) <= 1 }

SharedTrees ==
    { MkTree(parent, rot) : parent \in ParentVectors(MaxNodes), rot \in 0..3 }

InitShared ==
    /\ Init
    /\ input \in SharedSheets
    /\ tree \in SharedTrees

NextShared ==
    \/ Compile
    \/ New
    \/ GotoFirstChild
    \/ GotoNextSibling
    \/ GotoParent
    \/ NodeProperties
    \/ OtherNew
    \/ OtherGotoFirstChild
    \/ OtherGotoNextSibling
    \/ OtherGotoParent
    \/ OtherNodeProperties

SpecShared == InitShared /\ [][NextShared]_vars

\* The first cursor, as a cursor record.
First ==
    [pc |-> IF pc \in { "walking", "panicked" } THEN pc ELSE "none",
     cursor |-> cursor, state_stack |-> state_stack,
     child_index_stack |-> child_index_stack,
     op |-> IF pc \in { "walking", "panicked" } THEN last.op ELSE "none",
     ret |-> IF pc \in { "walking", "panicked" } THEN last.ret ELSE FALSE,
     props |-> last.props]

\* C19: in every step of two cursors that share a sheet, the sheet stays
\* as compiled; a call on one cursor leaves the stacks, the position and
\* the node_properties of the other as they were, and makes of the cursor
\* it is called on exactly what the same call makes of a cursor that runs
\* alone.
C19_SharedSheetCursorsIndependent ==
    [][/\ SheetShared => sheet' = sheet
       /\ other' # other =>
             /\ First' = First
             /\ pc = "walking" =>
                   node_properties(sheet', state_stack')
                     = node_properties(sheet, state_stack)
             /\ other' = Alone(sheet, tree, other, other'.op)
       /\ (SheetShared /\ First' # First) =>
             /\ other' = other
             /\ other.pc = "walking" =>
                   node_properties(sheet', other'.state_stack)
                     = node_properties(sheet, other.state_stack)
             /\ First' = Alone(sheet, tree, First, last'.op)]_vars

\* C19: both cursors are walking, at different nodes and with different
\* stacks, the first after a descent and the second after a sibling move.
C19_Witness ==
    /\ pc = "walking"
    /\ other.pc = "walking"
    /\ other.cursor # cursor
    /\ other.state_stack # state_stack
    /\ last.op = "goto_first_child" /\ last.ret
    /\ other.op = "goto_next_sibling" /\ other.ret

(***************************************************************************)
(* Properties of next_state (specification Spec).                          *)
(***************************************************************************)
\* The constraints a transition carries all hold on the node: its kind
\* filter is the node's kind, its regex matches the node's text, its child
\* index is the node's index among its siblings.
Holds(sh, transition, node, node_child_index) ==
    /\ IsSome(transition.node_kind_id) =>
          Unwrap(transition.node_kind_id) = node.kind
    /\ IsSome(transition.text_regex_index) =>
          /\ Utf8Valid(node.text)
          /\ IsMatch(sh.text_regexes[Unwrap(transition.text_regex_index) + 1],
                     node.text)
    /\ IsSome(transition.child_index) =>
          Unwrap(transition.child_index) = node_child_index

\* The list next_state examines for a candidate state (empty when the
\* state has no bucket for the node), and the first transition of it, in
\* declaration order, whose constraints hold.
Selected(state, node) ==
    IF IsSome(Lookup(state, node)) THEN Unwrap(Lookup(state, node)) ELSE <<>>

FirstHolding(sh, state, node, node_child_index) ==
    LET list == Selected(state, node)
        holding == { k \in 1..Len(list) :
                       Holds(sh, list[k], node, node_child_index) }
    IN  IF holding = {} THEN None
        ELSE Some(list[CHOOSE k \in holding : \A j \in holding : k <= j])

\* C21, as stated: the transition next_state returned through is the first
\* of the list of its candidate state whose constraints all hold, and
\* next_state falls back to a default only when no transition of the list
\* of the current state has all its constraints holding.
C21_FirstHoldingTransitionWins ==
    Stepped =>
        LET step == Unwrap(last.step)
            node == tree[cursor]
            node_child_index == child_index_stack[Len(child_index_stack)]
            current == FirstHolding(sheet, sheet.states[last.from + 1], node,
                                    node_child_index)
            default == FirstHolding(sheet, sheet.states[1], node,
                                    node_child_index)
        IN  /\ step.of = "current" => step.via = current
            /\ step.of = "default" => step.via = default
            /\ step.of # "current" => current = None

\* C22: from a current state S other than state 0, next_state returns
\* through the first passing transition of S's list whenever there is one,
\* whatever state 0 holds; it turns to state 0 exactly when no transition
\* of S's list passes, and then returns through the first passing
\* transition of the list of state 0 if there is one; when S is state 0
\* nothing is ever returned as found in a second search.
C22_DefaultStateOnlyAfterCurrent ==
    Stepped =>
        LET step == Unwrap(last.step)
            node == tree[cursor]
            node_child_index == child_index_stack[Len(child_index_stack)]
            S == sheet.states[last.from + 1]
            D == sheet.states[1]
            inS == FirstPassing(sheet, Selected(S, node), node,
                                node_child_index)
            inD == FirstPassing(sheet, Selected(D, node), node,
                                node_child_index)
        IN  /\ IsSome(inS) =>
                  /\ step.of = "current"
                  /\ step.via = inS
                  /\ step.state_id = Unwrap(inS).state_id
            /\ last.from # 0 =>
                  /\ step.of \in { "default", "fallback" } <=> inS = None
                  /\ (inS = None /\ IsSome(inD)) =>
                        /\ step.of = "default"
                        /\ step.via = inD
                        /\ step.state_id = Unwrap(inD).state_id
                  /\ (inS = None /\ inD = None) => step.of = "fallback"
            /\ last.from = 0 => step.of # "default"

\* C22: from a state other than state 0, a transition of the current state
\* decided although a transition of state 0 passes too and leads elsewhere.
C22_Witness ==
    /\ Stepped
    /\ last.from # 0
    /\ Unwrap(last.step).of = "current"
    /\ LET node == tree[cursor]
           inD == FirstPassing(sheet, Selected(sheet.states[1], node), node,
                               child_index_stack[Len(child_index_stack)])
       IN  /\ IsSome(inD)
           /\ Unwrap(inD).state_id # Unwrap(last.step).state_id

\* C23: when no transition passes in the list of the current state S nor
\* (S being another state than state 0) in the list of state 0, next_state
\* returns the default_next_state_id of S, and that is the state pushed.
C23_FallbackIsOfCurrentState ==
    Stepped =>
        LET step == Unwrap(last.step)
            node == tree[cursor]
            node_child_index == child_index_stack[Len(child_index_stack)]
            S == sheet.states[last.from + 1]
            inS == FirstPassing(sheet, Selected(S, node), node,
                                node_child_index)
            inD == FirstPassing(sheet, Selected(sheet.states[1], node), node,
                                node_child_index)
        IN  (inS = None /\ (last.from = 0 \/ inD = None)) =>
                /\ step.state_id = S.default_next_state_id
                /\ step.via = None
                /\ state_stack[Len(state_stack)] = S.default_next_state_id

\* C23: next_state fell back from a state other than state 0 whose
\* default_next_state_id is not that of state 0.
C23_Witness ==
    /\ Stepped
    /\ last.from # 0
    /\ Unwrap(last.step).of = "fallback"
    /\ sheet.states[last.from + 1].default_next_state_id
         # sheet.states[1].default_next_state_id
    /\ state_stack[Len(state_stack)]
         = sheet.states[last.from + 1].default_next_state_id

\* The list of `state` examined for `node`: the bucket of the node's field
\* id when the node has one and the state has a bucket for it; the bucket
\* of the node's kind id when the node has no field id or, with `falls`,
\* when the state has no bucket for the node's field id; else none.
Bucket(state, node, falls) ==
    IF node.field # 0 /\ node.field \in DOMAIN state.field_transitions
    THEN state.field_transitions[node.field]
    ELSE IF (node.field = 0 \/ falls)
            /\ node.kind \in DOMAIN state.kind_transitions
    THEN state.kind_transitions[node.kind]
    ELSE <<>>

\* next_state decided as the search of Bucket(S, ..) and then, for S other
\* than state 0, of Bucket(D, ..) decides.
DecidedByBucket(falls) ==
    Stepped =>
        LET step == Unwrap(last.step)
            node == tree[cursor]
            node_child_index == child_index_stack[Len(child_index_stack)]
            inS == FirstPassing(sheet,
                       Bucket(sheet.states[last.from + 1], node, falls),
                       node, node_child_index)
            inD == FirstPassing(sheet, Bucket(sheet.states[1], node, falls),
                                node, node_child_index)
        IN  /\ step.of = "current" <=> IsSome(inS)
            /\ step.of = "current" => step.via = inS
            /\ (last.from # 0 /\ inS = None) =>
                  /\ step.of = "default" <=> IsSome(inD)
                  /\ step.of = "default" => step.via = inD

\* C24, as stated: for each candidate state the list examined is the
\* field bucket of the node's field id whenever the node has a field id,
\* and the kind bucket only when it has none.
C24_FieldIdExcludesKindBucket == DecidedByBucket(FALSE)

\* C24, amended: for each candidate state the list examined is the field
\* bucket of the node's field id when the node has a field id and the
\* state has a bucket for it, and the kind bucket of the node's kind id
\* otherwise, be it that the node has no field id or that the state has no
\* bucket for its field id; one list at most is searched per state.
C24_FieldBucketElseKindBucket == DecidedByBucket(TRUE)

\* C24: a node that has a field id was resolved through a transition of
\* the kind bucket of the current state, which has no bucket for the field.
C24_Witness ==
    /\ Stepped
    /\ tree[cursor].field # 0
    /\ tree[cursor].field
         \notin DOMAIN sheet.states[last.from + 1].field_transitions
    /\ Unwrap(last.step).of = "current"
    /\ \E k \in DOMAIN sheet.states[last.from + 1].kind_transitions[
                        tree[cursor].kind] :
          Unwrap(last.step).via
            = Some(sheet.states[last.from + 1].kind_transitions[
                       tree[cursor].kind][k])

(***************************************************************************)
(* Properties of the buckets PropertySheet::new builds (specification      *)
(* SpecSheet).                                                             *)
(***************************************************************************)
\* The kind ids a clause stands for: those of its name and named flag.
KindIdsOf(t) ==
    { id \in 0..(node_kind_count - 1) :
        /\ t.kind = Some(node_kind_for_id(id))
        /\ t.named = Some(node_kind_is_named(id)) }

\* The compiled transition of clause t with the kind filter `filter`.
Entry(sh, t, filter) ==
    PropertyTransition(t.state_id, t.index,
        IF IsSome(t.text)
        THEN Some((CHOOSE i \in 1..Len(sh.text_regexes) :
                     sh.text_regexes[i] = RegexNew(Unwrap(t.text)).regex) - 1)
        ELSE None,
        filter)

\* The number of times x is in seq.
CountIn(seq, x) == Cardinality({ i \in 1..Len(seq) : seq[i] = x })

\* The ids of the fields named by the clauses 1..n of a state.
FieldsNamed(transitions, n) ==
    { Unwrap(field_id_for_name(Unwrap(transitions[k].field))) :
        k \in { j \in 1..n : IsSome(transitions[j].field) } }

\* In every compiled state, a clause with a kind and no field is in the
\* bucket of field F, with each of its kind ids as filter, once for each
\* of its occurrences (all of them, or with `earlier` those that come
\* after a clause naming F); F ranges over the fields the state names.
ReplicatedInto(earlier) ==
    pc = "compiled" =>
        \A s \in 1..Len(input.states) :
           LET transitions == input.states[s].transitions
               state == sheet.states[s]
           IN  /\ DOMAIN state.field_transitions
                    = FieldsNamed(transitions, Len(transitions))
               /\ \A k \in 1..Len(transitions) :
                     \A F \in DOMAIN state.field_transitions :
                        \A id \in KindIdsOf(transitions[k]) :
                           ~IsSome(transitions[k].field) =>
                              CountIn(state.field_transitions[F],
                                      Entry(sheet, transitions[k], Some(id)))
                                = Cardinality(
                                    { j \in 1..Len(transitions) :
                                        /\ transitions[j] = transitions[k]
                                        /\ earlier =>
                                              F \in FieldsNamed(transitions,
                                                                j - 1) })

\* C25, as stated: a clause with a kind and no field is replicated, with
\* the kind id as filter, into the buckets of the fields named by clauses
\* that precede it in its state, and not into the bucket of a field first
\* named by a later clause.
C25_ReplicatedIntoEarlierFieldBuckets == ReplicatedInto(TRUE)

\* C25, amended: a clause with a kind and no field is replicated, with the
\* kind id as filter, into the bucket of every field named by a clause of
\* its state, be that clause before or after it.
C25_ReplicatedIntoEveryFieldBucket == ReplicatedInto(FALSE)

\* C25: a compiled state whose first clause has a kind and no field and
\* whose second clause names a field: the bucket of that field holds the
\* first clause, filtered, before the second.
C25_Witness ==
    /\ pc = "compiled"
    /\ Len(input.states) = 1
    /\ LET transitions == input.states[1].transitions
       IN  /\ Len(transitions) = 2
           /\ KindIdsOf(transitions[1]) = { 0 }
           /\ ~IsSome(transitions[1].field)
           /\ transitions[2].field = Some("g")
           /\ sheet.states[1].field_transitions[2]
                = << Entry(sheet, transitions[1], Some(0)),
                     Entry(sheet, transitions[2], None) >>

C27_SiblingMoveReplacesTop ==
    [][(pc = "walking" /\ last'.op = "goto_next_sibling" /\ last'.ret
        /\ cursor' # cursor) =>
          LET n == Len(state_stack)
              m == Len(child_index_stack)
              below == SubSeq(state_stack, 1, n - 1)
              index == child_index_stack[m] + 1
          IN  /\ Len(state_stack') = n
              /\ Len(child_index_stack') = m
              /\ SubSeq(state_stack', 1, n - 1) = below
              /\ SubSeq(child_index_stack', 1, m - 1)
                   = SubSeq(child_index_stack, 1, m - 1)
              /\ child_index_stack'[m] = index
              /\ state_stack'[n]
                   = next_state(sheet, below, tree[cursor'], index).state_id
              /\ last'.from = state_stack[n - 1]]_vars

\* C27: a sibling move succeeded from a sibling whose state was not the
\* state resolved for the parent, and next_state would have given another
\* state from it.
C27_Witness ==
    /\ pc = "walking"
    /\ last.op = "goto_next_sibling"
    /\ last.ret
    /\ LET before == Unwrap(last.before).state_stack
       IN  /\ before[Len(before)] # last.from
           /\ InRange(sheet.states, before[Len(before)])
           /\ next_state(sheet, before, tree[cursor],
                         child_index_stack[Len(child_index_stack)]).state_id
                # state_stack[Len(state_stack)]

\* C28: whenever a cursor exists, the active-state stack has two elements
\* at least, the first is the seed state 0 and the second is the state
\* next_state gave for the root, from state 0 and with child index 0, at
\* construction.
C28_SeedAndRootStateStay ==
    pc = "walking" =>
        /\ Len(state_stack) >= 2
        /\ state_stack[1] = 0
        /\ state_stack[2] = next_state(sheet, <<0>>, tree[1], 0).state_id

\* C28: at the root of a tree of several nodes a goto_parent was refused;
\* the state resolved for the root is not state 0.
C28_Witness ==
    /\ pc = "walking"
    /\ last.op = "goto_parent"
    /\ ~last.ret
    /\ Len(tree) > 1
    /\ state_stack = << 0, next_state(sheet, <<0>>, tree[1], 0).state_id >>
    /\ state_stack[2] # 0

(***************************************************************************)
(* Properties of the clauses of Query::new (specification SpecQuery).      *)
(***************************************************************************)
\* The steps of pattern i that start a clause: those that are not a done
\* step and come first or after a done step.
ClauseStarts(q, i) ==
    { j \in 1..Len(q.patterns[i]) :
        /\ q.patterns[i][j].type # "done"
        /\ j = 1 \/ q.patterns[i][j - 1].type = "done" }

\* What Query::new answers to a clause that starts with a capture.
ExpectedFunctionName(q, p) ==
    << "Expected predicate to start with a function name",
       CaptureName(q, p[1]) >>

\* C29, as stated: when a clause starts with a capture, Query::new returns
\* a Predicate error that quotes the name of such a capture, and no query.
C29_CaptureFirstQuoted ==
    LET clauses == QueryClauses(qinput)
        capture_first == { k \in 1..Len(clauses) :
                             clauses[k][1].type = "capture" }
    IN  (Compiled /\ capture_first # {}) =>
           /\ RejectedPredicate
           /\ \E k \in capture_first :
                 Unwrap(qerr).message
                   = ExpectedFunctionName(qinput, clauses[k])

\* C29, amended: the steps of a pattern are split on the done steps, one
\* clause for each run of other steps, and the empty runs count for
\* nothing: Query::new answers as it does for the same clauses with a
\* single done step after each; when a clause starts with a capture
\* Query::new returns a Predicate error and no query, and the error quotes
\* the name of that capture when that clause is the first, in pattern and
\* clause order, that is not accepted.
C29_CaptureFirstRejected ==
    Compiled =>
        LET clauses == QueryClauses(qinput)
            capture_first == { k \in 1..Len(clauses) :
                                 clauses[k][1].type = "capture" }
            failing == { k \in 1..Len(clauses) :
                           ~Accepted(qinput, clauses[k]) }
            packed == [qinput EXCEPT !.patterns =
                          [i \in 1..Len(qinput.patterns) |->
                              PatternSteps(ClausesOf(qinput, i))]]
        IN  /\ QueryNew(packed)
                 = [ok |-> qpc = "compiled", panic |-> FALSE, err |-> qerr,
                    query |-> query]
            /\ qpc = "compiled" =>
                  \A i \in 1..Len(qinput.patterns) :
                     Len(query.predicates[i]) + Len(query.properties[i])
                       = Cardinality(ClauseStarts(qinput, i))
            /\ capture_first # {} =>
                  /\ RejectedPredicate
                  /\ \A k \in capture_first :
                        (\A j \in failing : k <= j) =>
                            Unwrap(qerr).message
                              = ExpectedFunctionName(qinput, clauses[k])

\* C29: a query rejected for a clause that starts with capture a, the
\* second clause of a pattern whose steps begin with an empty clause.
C29_Witness ==
    /\ RejectedPredicate
    /\ Unwrap(qerr).message
         = << "Expected predicate to start with a function name", "a" >>
    /\ qinput.patterns[1][1].type = "done"
    /\ qinput.patterns[1][2].type = "capture"

\* The stacks of a cursor at node n as the path from the root to n gives
\* them: the seed state, then for each node of the path the state
\* next_state gives from the states before it, with the node's index among
\* its siblings.
RECURSIVE PathStacks(_, _, _)
PathStacks(sh, tr, n) ==
    IF tr[n].parent = 0
    THEN [state_stack |-> << 0, next_state(sh, <<0>>, tr[n], 0).state_id >>,
          child_index_stack |-> <<0>>]
    ELSE LET up == PathStacks(sh, tr, tr[n].parent)
             index == SiblingIndex(tr, n)
         IN  [state_stack |->
                 Append(up.state_stack,
                        next_state(sh, up.state_stack, tr[n], index).state_id),
              child_index_stack |-> Append(up.child_index_stack, index)]

\* C30: whenever a cursor is at a node, both its stacks, and so what
\* node_properties returns, are those the path from the root to the node
\* gives, whatever moves led there.
C30_StacksDependOnPathOnly ==
    pc = "walking" =>
        /\ state_stack = PathStacks(sheet, tree, cursor).state_stack
        /\ child_index_stack
             = PathStacks(sheet, tree, cursor).child_index_stack
        /\ node_properties(sheet, state_stack)
             = node_properties(sheet,
                               PathStacks(sheet, tree, cursor).state_stack)

\* C30: the cursor is back, by goto_parent, at a node below the root that
\* it had left for its child; the state of the node is not its parent's.
C30_Witness ==
    /\ pc = "walking"
    /\ last.op = "goto_parent"
    /\ last.ret
    /\ Depth(tree, cursor) = 1
    /\ state_stack[3] # state_stack[2]
    /\ state_stack = PathStacks(sheet, tree, cursor).state_stack

(***************************************************************************)
(* The compiled buckets against the clauses they come from (specification  *)
(* Spec).                                                                  *)
(***************************************************************************)
\* A clause, read directly on a node: the field it names is the node's
\* field, the kind it names is the node's kind (name and named flag), its
\* text pattern matches the node's text and its index is the node's index
\* among its siblings.
ClauseHolds(clause, node, node_child_index) ==
    /\ IsSome(clause.field) =>
          /\ IsSome(FieldId(node))
          /\ field_id_for_name(Unwrap(clause.field)) = FieldId(node)
    /\ IsSome(clause.kind) =>
          /\ Unwrap(clause.kind) = node_kind_for_id(node.kind)
          /\ clause.named = Some(node_kind_is_named(node.kind))
    /\ IsSome(clause.text) =>
          /\ Utf8Valid(node.text)
          /\ RegexNew(Unwrap(clause.text)).ok
          /\ IsMatch(RegexNew(Unwrap(clause.text)).regex, node.text)
    /\ IsSome(clause.index) => Unwrap(clause.index) = node_child_index

\* The first clause of a declared state, in declaration order, that holds
\* on the node, or None.
FirstClause(transitions, node, node_child_index) ==
    LET holding == { k \in 1..Len(transitions) :
                       ClauseHolds(transitions[k], node, node_child_index) }
    IN  IF holding = {} THEN None
        ELSE Some(transitions[CHOOSE k \in holding : \A j \in holding : k <= j])

\* The compiled transition tr carries what the clause declares: its state,
\* its child index and the regex of its text pattern.
CompiledAs(sh, clause, tr) ==
    /\ tr.state_id = AsU16(clause.state_id)
    /\ tr.child_index = (IF IsSome(clause.index)
                         THEN Some(AsU16(Unwrap(clause.index))) ELSE None)
    /\ IsSome(tr.text_regex_index) = IsSome(clause.text)
    /\ IsSome(clause.text) =>
          sh.text_regexes[Unwrap(tr.text_regex_index) + 1]
            = RegexNew(Unwrap(clause.text)).regex

\* Every clause of the state names a field of the language or a kind that
\* some kind id has.
Resolvable(transitions) ==
    \A k \in 1..Len(transitions) :
       LET t == transitions[k]
       IN  \/ IsSome(t.field) /\ IsSome(field_id_for_name(Unwrap(t.field)))
           \/ IsSome(t.kind) /\
                \E id \in 0..(node_kind_count - 1) :
                   /\ node_kind_for_id(id) = Unwrap(t.kind)
                   /\ t.named = Some(node_kind_is_named(id))

\* C31, as stated: the transition next_state finds in the one bucket it
\* chooses for a state is the compiled form of the first clause of that
\* state, in declaration order, that holds on the node read directly, and
\* next_state finds none exactly when no clause of the state holds.
C31_BucketLookupIsFirstClause ==
    Stepped =>
        LET step == Unwrap(last.step)
            node == tree[cursor]
            node_child_index == child_index_stack[Len(child_index_stack)]
            declared == input.states[last.from + 1].transitions
            current == FirstClause(declared, node, node_child_index)
            default == FirstClause(input.states[1].transitions, node,
                                   node_child_index)
        IN  (Resolvable(declared) /\ Resolvable(input.states[1].transitions))
            => /\ step.of = "current" =>
                     /\ IsSome(current)
                     /\ CompiledAs(sheet, Unwrap(current), Unwrap(step.via))
               /\ step.of # "current" => current = None
               /\ step.of = "default" =>
                     /\ IsSome(default)
                     /\ CompiledAs(sheet, Unwrap(default), Unwrap(step.via))
               /\ (step.of = "fallback" /\ last.from # 0) => default = None

(***************************************************************************)
(* Properties of the child-index stack (specification Spec).               *)
(***************************************************************************)
\* The nodes from the root down to n.
RECURSIVE Ancestors(_, _)
Ancestors(t, n) ==
    IF t[n].parent = 0 THEN << n >>
    ELSE Append(Ancestors(t, t[n].parent), n)

\* C32: while a cursor walks, the child-index stack has one element for
\* each node from the root down to the current node, and each element is
\* the index of that node among its siblings: the top is 0 after a
\* goto_first_child and one more after each goto_next_sibling; and the
\* index a move or the construction gave to next_state is the index among
\* its siblings of the node entered.
C32_ChildIndexStackIsSiblingIndexes ==
    /\ pc = "walking" =>
          LET path == Ancestors(tree, cursor)
          IN  /\ Len(child_index_stack) = Len(path)
              /\ \A k \in 1..Len(path) :
                    child_index_stack[k] = SiblingIndex(tree, path[k])
              /\ (last.op = "goto_first_child" /\ last.ret) =>
                    child_index_stack[Len(child_index_stack)] = 0
              /\ (last.op = "goto_next_sibling" /\ last.ret) =>
                    child_index_stack[Len(child_index_stack)]
                      = Unwrap(last.before).child_index_stack[
                            Len(child_index_stack)] + 1
    /\ (IsSome(last.step) /\ pc \in { "walking", "panicked" }) =>
          last.index = SiblingIndex(tree, cursor)

\* C32: a second sibling entered by goto_next_sibling, below the root.
C32_Witness ==
    /\ pc = "walking"
    /\ last.op = "goto_next_sibling" /\ last.ret
    /\ Depth(tree, cursor) >= 1
    /\ SiblingIndex(tree, cursor) = 1
    /\ child_index_stack[Len(child_index_stack)] = 1
    /\ last.index = 1

(***************************************************************************)
(* Clauses that resolve to nothing (specification SpecResolve): sheets of  *)
(* one state whose clauses name no field and no kind, a field the language *)
(* does not have, or a kind and named flag that no kind id has.            *)
(***************************************************************************)
\* Three clauses that resolve (on kind a, on field f, on kind a with a text
\* pattern) and the clauses that do not: without field or kind (and with a
\* text pattern that compiles or not), on a field the language does not
\* have, on a kind that is never anonymous (with or without a field of the
\* language), on a kind with `named` omitted.
ResolveClauses ==
    { TransitionJSON(Some("a"), Some(TRUE), None, None, None, 0),
      TransitionJSON(None, None, None, Some("f"), None, 1),
      TransitionJSON(Some("a"), Some(TRUE), None, None, Some("a"), 1),
      TransitionJSON(None, None, None, None, None, 2),
      TransitionJSON(None, None, None, None, Some("b"), 2),
      TransitionJSON(None, None, None, None, Some("("), 2),
      TransitionJSON(None, None, None, Some("h"), None, 2),
      TransitionJSON(Some("b"), Some(FALSE), None, None, None, 2),
      TransitionJSON(Some("b"), Some(FALSE), None, Some("g"), None, 2),
      TransitionJSON(Some("a"), None, None, None, None, 2) }

\* Sheets of one state of up to three clauses.
ResolveSheetInputs ==
    { SheetJSON(<< StateJSON(0, ts, 0) >>, PropertySets) :
        ts \in { <<>> } \cup { << c >> : c \in ResolveClauses }
               \cup { << c, e >> : c \in ResolveClauses, e \in ResolveClauses }
               \cup { << c, e, g >> : c \in ResolveClauses,
                                       e \in ResolveClauses,
                                       g \in ResolveClauses } }

InitResolve ==
    /\ pc = "start"
    /\ input \in ResolveSheetInputs
    /\ tree = MkTree(<< 0 >>, 0)
    /\ sheet = NoSheet
    /\ cursor = 0
    /\ state_stack = <<>>
    /\ child_index_stack = <<>>
    /\ last = NoCall
    /\ saved = <<>>
    /\ other = NoCursor
    /\ resolved = NotResolved
    /\ QueryIdle

NextResolve == Compile

SpecResolve == InitResolve /\ [][NextResolve]_vars

\* A clause that resolves to nothing: it names a kind that no kind id has
\* with its named flag, or it names no kind and no field of the language.
ResolvesToNothing(t) ==
    IF IsSome(t.kind) THEN KindIdsOf(t) = {}
    ELSE ~(IsSome(t.field) /\ IsSome(field_id_for_name(Unwrap(t.field))))

\* The declarative sheet without its clauses that resolve to nothing.
WithoutUnresolved(json) ==
    [json EXCEPT !.states =
        [s \in 1..Len(json.states) |->
            [json.states[s] EXCEPT !.transitions =
                SelectSeq(@, LAMBDA t : ~ResolvesToNothing(t))]]]

\* A bucket with each regex index replaced by the regex it refers to.
WithRegexes(sh, bucket) ==
    [i \in 1..Len(bucket) |->
        [bucket[i] EXCEPT !.text_regex_index =
            IF IsSome(@) THEN Some(sh.text_regexes[Unwrap(@) + 1]) ELSE None]]

\* The entries of a bucket that carry the kind filter id, the filter erased.
FilteredBy(bucket, id) ==
    LET kept == SelectSeq(bucket, LAMBDA tr : tr.node_kind_id = Some(id))
    IN  [i \in 1..Len(kept) |-> [kept[i] EXCEPT !.node_kind_id = None]]

\* The nodes a lookup is tried on: every kind, no field or a field, every
\* text.
LookupNodes ==
    { [parent |-> 0, kind |-> k, field |-> f, text |-> Texts[x]] :
        k \in 0..(node_kind_count - 1), f \in 0..Len(FieldNames),
        x \in 1..Len(Texts) }

\* What a search of state s finds for a node: nothing, or a next state.
Found(sh, s, node, node_child_index) ==
    LET found == SearchState(sh, sh.states[s], node, node_child_index)
    IN  IF IsSome(found) THEN Some(Unwrap(found).state_id) ELSE None

\* The clauses that resolve to nothing are dropped: the buckets of the
\* compiled sheet are those of the sheet compiled without these clauses,
\* but for the buckets of the fields only they name, which hold nothing but
\* the replicated entries of the kind buckets; and every search finds what
\* it finds in the sheet compiled without them.  With `silent`, they never
\* make PropertySheet::new fail; without, they do exactly when one of their
\* text patterns does not compile.
Drops(silent) ==
    last.op = "PropertySheet::new" =>
        LET without == PropertySheetNew(WithoutUnresolved(input))
        IN  /\ IF silent THEN (pc = "compiled") = without.ok
               ELSE (pc = "compiled") = (InvalidLiterals(input) = {})
            /\ pc = "rejected" => Unwrap(last.err).kind = "InvalidRegex"
            /\ pc = "compiled" =>
                  /\ without.ok
                  /\ \A s \in 1..Len(sheet.states) :
                        LET state == sheet.states[s]
                            other_state == without.sheet.states[s]
                        IN  /\ DOMAIN state.kind_transitions
                                 = DOMAIN other_state.kind_transitions
                            /\ \A K \in DOMAIN state.kind_transitions :
                                  WithRegexes(sheet, state.kind_transitions[K])
                                    = WithRegexes(without.sheet,
                                          other_state.kind_transitions[K])
                            /\ DOMAIN other_state.field_transitions
                                 \subseteq DOMAIN state.field_transitions
                            /\ \A F \in DOMAIN other_state.field_transitions :
                                  WithRegexes(sheet, state.field_transitions[F])
                                    = WithRegexes(without.sheet,
                                          other_state.field_transitions[F])
                            /\ \A F \in DOMAIN state.field_transitions
                                          \ DOMAIN other_state.field_transitions :
                                  \A id \in 0..(node_kind_count - 1) :
                                     /\ \A i \in 1..Len(state.field_transitions[F]) :
                                           IsSome(state.field_transitions[F][i]
                                                    .node_kind_id)
                                     /\ FilteredBy(state.field_transitions[F], id)
                                          = IF id \in DOMAIN state.kind_transitions
                                            THEN state.kind_transitions[id]
                                            ELSE <<>>
                            /\ \A node \in LookupNodes : \A i \in 0..1 :
                                  Found(sheet, s, node, i)
                                    = Found(without.sheet, s, node, i)

\* C33, as stated: a clause that resolves to nothing is dropped without
\* error; it is registered in no bucket and determines no next state.
C33_UnresolvedClausesDroppedSilently == Drops(TRUE)

\* C33, amended: a clause that resolves to nothing is registered in no
\* bucket and determines no next state, and its resolution raises no
\* error; its text pattern is compiled all the same, and PropertySheet::new
\* returns InvalidRegex when that pattern does not compile.
C33_UnresolvedClausesDropped == Drops(FALSE)

\* C33: a compiled sheet whose state has a clause that resolves between two
\* clauses that do not, one of them naming a field of the language with a
\* kind no kind id has: the bucket of that field exists and holds only the
\* replicated entry.
C33_Witness ==
    /\ pc = "compiled"
    /\ LET transitions == input.states[1].transitions
       IN  /\ Len(transitions) = 3
           /\ ResolvesToNothing(transitions[1])
           /\ transitions[1].field = Some("g")
           /\ ~ResolvesToNothing(transitions[2])
           /\ ~IsSome(transitions[2].field)
           /\ ResolvesToNothing(transitions[3])
           /\ IsSome(transitions[3].text)
           /\ Len(sheet.states[1].field_transitions[2]) = 1
           /\ Len(sheet.text_regexes) >= 1

(***************************************************************************)
(* The regex reference of one transition (specification SpecRegexIndex):   *)
(* the second loop of PropertySheet::new reaches a transition after some   *)
(* number of distinct text patterns were compiled, few or about 2^16.  The *)
(* two lists are represented by their length: they are filled together and *)
(* hold one entry for each distinct pattern.                               *)
(***************************************************************************)
\* The largest of the small numbers of patterns compiled before.
MaxPatterns == 8

\* The numbers of patterns compiled before the transition.
CompiledCounts ==
    0..MaxPatterns \cup ((U16 - 2)..(U16 + MaxPatterns)) \cup { 2 * U16 }

\* What `0u16 - 1` gives: a panic where overflow is checked, 2^16 - 1
\* where it wraps.
Subtracted(index) ==
    IF index = Some(-1)
    THEN { [panic |-> TRUE, index |-> None],
           [panic |-> FALSE, index |-> Some(U16 - 1)] }
    ELSE { [panic |-> FALSE, index |-> index] }

\* The text_regex_index of one transition, as the second loop of
\* PropertySheet::new computes it from the two lists of n entries; the
\* transition's pattern is nowhere among them, or at an index below n.
TextRegexIndex ==
    /\ resolved.op = "none"
    /\ \E n \in CompiledCounts, text \in { None, Some("a") } :
         \E position \in
               (IF IsSome(text)
                THEN { None } \cup
                     { Some(q) :
                         q \in { r \in 0..1 \cup (U16 - 1)..(U16 + 1)
                                        \cup { n - 1 } : r >= 0 /\ r < n } }
                ELSE { None }) :
            LET pushed == IsSome(text) /\ ~IsSome(position)
                length == IF pushed THEN n + 1 ELSE n
                index == IF ~IsSome(text) THEN None
                         ELSE IF IsSome(position)
                         THEN Some(FoundIndex(Unwrap(position)))
                         ELSE Some(PushedIndex(length))
                own == IF ~IsSome(text) THEN None
                       ELSE IF IsSome(position) THEN position
                       ELSE Some(length - 1)
            IN  \E out \in Subtracted(index) :
                   resolved' =
                     [op |-> "text_regex_index", compiled |-> n,
                      position |-> position, text |-> text,
                      panic |-> out.panic, index |-> out.index,
                      length |-> length, own |-> own]
    /\ UNCHANGED << cursor_vars, query_vars, other >>

InitRegexIndex ==
    /\ pc = "start"
    /\ input = SheetJSON(<<>>, PropertySets)
    /\ tree = MkTree(<< 0 >>, 0)
    /\ sheet = NoSheet
    /\ cursor = 0
    /\ state_stack = <<>>
    /\ child_index_stack = <<>>
    /\ last = NoCall
    /\ saved = <<>>
    /\ other = NoCursor
    /\ resolved = NotResolved
    /\ QueryIdle

NextRegexIndex == TextRegexIndex

SpecRegexIndex == InitRegexIndex /\ [][NextRegexIndex]_vars

\* C34, as stated: the regex reference of a transition that has a text
\* pattern is a valid index into the regex list and the regex at that
\* index is the one compiled from the transition's own pattern; a
\* transition without a text pattern has no regex reference.
C34_RegexReferenceIsOwnRegex ==
    (resolved.op = "text_regex_index" /\ ~resolved.panic) =>
        IF IsSome(resolved.text)
        THEN /\ IsSome(resolved.index)
             /\ Unwrap(resolved.index) < resolved.length
             /\ resolved.index = resolved.own
        ELSE resolved.index = None

(***************************************************************************)
(* The order of the checks of Query::new (specification SpecQuery).        *)
(***************************************************************************)
\* Clause p, of a known function, has an argument of the wrong kind among
\* its first two.
WrongKind(q, p) ==
    \/ /\ Names(q, p, "eq?") \/ Names(q, p, "match?")
       /\ Len(p) >= 2 /\ p[2].type # "capture"
    \/ Names(q, p, "match?") /\ Len(p) >= 3 /\ p[3].type = "capture"
    \/ /\ Names(q, p, "set!")
       /\ \E k \in 2..3 : Len(p) >= k /\ p[k].type # "string"

\* The messages about the kind of an argument.
KindMessages ==
    { "First argument must be a capture name",
      "Second argument must be a literal",
      "Argument to set! predicate must be strings" }

\* The first clause of the query, pattern by pattern, that Query::new does
\* not accept.
FirstFailing(q) ==
    LET clauses == QueryClauses(q)
        failing == { k \in 1..Len(clauses) : ~Accepted(q, clauses[k]) }
    IN  IF failing = {} THEN None
        ELSE Some(clauses[CHOOSE k \in failing : \A j \in failing : k <= j])

\* C35: Query::new returns the error of the first clause, in pattern order
\* and then clause order, that it does not accept, whatever comes after
\* that clause; for a clause of a known function the error is about the
\* number of arguments when that number is wrong, else about the kind of
\* an argument when a kind is wrong, and about the regex only when number
\* and kinds are right.
C35_FirstFailingClauseAndCheckOrder ==
    Compiled =>
        LET failing == FirstFailing(qinput)
        IN  /\ (qpc = "compiled") = (failing = None)
            /\ IsSome(failing) =>
                  LET p == Unwrap(failing)
                      message == Unwrap(qerr).message
                      known == p[1].type = "string" /\ ~UnknownFunction(qinput, p)
                  IN  /\ RejectedPredicate
                      /\ qerr = CompileClause(qinput, p).err
                      /\ (known /\ Len(p) # 3) =>
                            message = WrongCount(qinput, p).message
                      /\ (known /\ Len(p) = 3 /\ WrongKind(qinput, p)) =>
                            message[1] \in KindMessages
                      /\ message[1] = "Invalid regex" =>
                            /\ Len(p) = 3
                            /\ ~WrongKind(qinput, p)
                            /\ message[2] = StringValue(qinput, p[3])

\* C35: a query rejected for a clause that has a wrong number of arguments
\* and an argument of the wrong kind, after a clause that is accepted and
\* before a pattern with an unknown function.
C35_Witness ==
    /\ RejectedPredicate
    /\ Len(qinput.patterns) = 2
    /\ LET clauses == QueryClauses(qinput)
       IN  /\ Len(clauses) = 3
           /\ Accepted(qinput, clauses[1])
           /\ Len(clauses[2]) # 3
           /\ WrongKind(qinput, clauses[2])
           /\ UnknownFunction(qinput, clauses[3])
           /\ Unwrap(qerr).message = WrongCount(qinput, clauses[2]).message

(***************************************************************************)
(* Child indexes of 2^16 and more (specification SpecIndex): the traversal *)
(* with sheets of one clause, on kind a at child index N.                  *)
(***************************************************************************)
\* Sheets of two states: state 0 has the clause on kind a at child index N,
\* which leads to state 1; state 1 has no clause.  `index` is a usize: N
\* is 0, 1, 2^16 or 2^16 + 1.
IndexSheets ==
    { SheetJSON(<< StateJSON(0, << TransitionJSON(Some("a"), Some(TRUE),
                                                  Some(N), None, None, 1) >>,
                             0),
                   StateJSON(1, <<>>, 0) >>,
                PropertySets) : N \in { 0, 1, U16, U16 + 1 } }

InitIndex ==
    /\ pc = "start"
    /\ input \in IndexSheets
    /\ tree \in Trees
    /\ sheet = NoSheet
    /\ cursor = 0
    /\ state_stack = <<>>
    /\ child_index_stack = <<>>
    /\ last = NoCall
    /\ saved = <<>>
    /\ other = NoCursor
    /\ resolved = NotResolved
    /\ QueryIdle

NextIndex ==
    \/ Compile
    \/ New
    \/ GotoFirstChild
    \/ GotoNextSibling
    \/ GotoParent
    \/ NodeProperties

SpecIndex == InitIndex /\ [][NextIndex]_vars

\* The child index the clause of the sheet declares.
DeclaredIndex == Unwrap(input.states[1].transitions[1].index)

\* C36, as stated: on a node of the clause's kind, next_state returns
\* through the transition of the clause exactly when the index of the node
\* among its siblings is the child index the clause declares, be these
\* below 2^16 or not.
C36_ChildIndexFilterExact ==
    (Stepped /\ node_kind_for_id(tree[cursor].kind) = "a"
             /\ node_kind_is_named(tree[cursor].kind)) =>
        (IsSome(Unwrap(last.step).via)
            <=> SiblingIndex(tree, cursor) = DeclaredIndex)

(***************************************************************************)
(* Query::new on a source the structural compilation rejects               *)
(* (specification SpecQueryError).                                         *)
(***************************************************************************)
\* The length of the longest source.
MaxSource == 3

\* The sources, of a name character, a mark of a name and a character
\* that is in no name.
Sources ==
    UNION { [1..n -> { "a", "-", "(" }] : n \in 0..MaxSource }

\* A source and what the structural compilation reports on it: a syntax
\* error at an offset of the source or at its end; a node type, a field or
\* a capture that does not exist, at an offset where a name is.
FailedInputs ==
    LET failures(source) ==
          { [error_type |-> "Syntax", error_offset |-> o] :
              o \in 0..Len(source) }
          \cup { [error_type |-> type, error_offset |-> o] :
                   type \in { "NodeType", "Field", "Capture" },
                   o \in { k \in 0..(Len(source) - 1) :
                             IsNameChar(source[k + 1]) } }
    IN  UNION { { [source |-> source, failure |-> Some(failure),
                   capture_names |-> <<>>, string_values |-> <<>>,
                   patterns |-> <<>>] : failure \in failures(source) } :
                source \in Sources }

InitQueryError ==
    /\ qpc = "start"
    /\ qinput \in FailedInputs
    /\ raw = <<>>
    /\ texts = <<>>
    /\ query = NoQuery
    /\ pulled = 0
    /\ yielded = <<>>
    /\ ended = FALSE
    /\ qerr = None
    /\ runs = <<>>
    /\ CursorIdle

NextQueryError == QCompile

SpecQueryError == InitQueryError /\ [][NextQueryError]_vars

\* The longest run of name characters of the source that starts at the
\* offset.
NameAt(source, offset) ==
    LET lengths == { k \in 0..(Len(source) - offset) :
                       \A i \in 1..k : IsNameChar(source[offset + i]) }
    IN  SubSeq(source, offset + 1,
               offset + (CHOOSE k \in lengths : \A j \in lengths : j <= k))

\* C37, as stated: when the structural compilation fails, Query::new
\* returns Syntax with the offset for a syntax error and, for a node type,
\* field or capture error, the error of that type with the longest run of
\* name characters that starts at the offset, wherever that run ends; it
\* never panics.
C37_ErrorCarriesNameAtOffset ==
    (qpc # "start" /\ IsSome(qinput.failure)) =>
        LET failure == Unwrap(qinput.failure)
        IN  /\ qpc = "rejected"
            /\ query = NoQuery
            /\ qerr = Some(IF failure.error_type = "Syntax"
                           THEN [kind |-> "Syntax",
                                 offset |-> failure.error_offset]
                           ELSE [kind |-> failure.error_type,
                                 name |-> NameAt(qinput.source,
                                                 failure.error_offset)])

====
